---------------------------- MODULE Spec2Model ----------------------------
(***************************************************************************)
(* BLEEP consistency core: the shard manager / rebalancer of               *)
(* crates/bleep-state/src/sharding.rs and the block finalization engine of *)
(* crates/bleep-consensus/src/consensus.rs.                                *)
(*                                                                         *)
(* Several specifications share the module:                                   *)
(*   Spec          - BLEEPShardingModule (assign_transaction,              *)
(*                   monitor_and_auto_rebalance, rebalance_shards,         *)
(*                   persist_shard_state, load_shard_state);               *)
(*   ConsensusSpec - BLEEPAdaptiveConsensus (switch_consensus_mode,        *)
(*                   finalize_block and its three algorithms);             *)
(*   AdaptiveSpec  - AIAdaptiveConsensus of ai_adaptive_logic.rs           *)
(*                   (collect_metrics, predict_best_consensus,             *)
(*                   adjust_validators, run_adaptive_logic);               *)
(*   RebalanceSpec - rebalance_shards statement by statement, with what    *)
(*                   another holder of the shards and of the store can     *)
(*                   see between its statements;                           *)
(*   PowSpec       - the nonce search of pow_algorithm iteration by        *)
(*                   iteration (PowLiveSpec adds that a running loop       *)
(*                   keeps running);                                       *)
(*   MonitorSpec   - monitor_validators over the validator registry;       *)
(*   LockSpec      - assign_transaction and monitor_and_auto_rebalance     *)
(*                   with the shard mutexes they acquire;                  *)
(*   BlockchainSpec - Blockchain of bleep-core (add_block, handle_fork,    *)
(*                   rollback);                                            *)
(*   PoolSpec      - TransactionPool of bleep-core.                        *)
(* Each specification leaves the other components' variables untouched.    *)
(*                                                                         *)
(* Modelling conventions                                                   *)
(*  - Reputations are f64 in the source; they are kept here in thousandths *)
(*    (0.8 is 800) so that the comparisons of the source are exact.        *)
(*  - Spec describes the data effect of each shard operation in program    *)
(*    order.  The std::sync::Mutex acquisitions of the operations are not  *)
(*    part of Spec: a handler is taken to run through its statements.      *)
(*  - HashMap iteration order is unspecified: wherever the source iterates *)
(*    a HashMap and the order matters, the model chooses nondeterministic- *)
(*    ally.                                                                *)
(*  - Collaborators whose code is outside the crate sources (the AI        *)
(*    engine's predict_consensus, the consensus gate                       *)
(*    validate_rebalance_with_consensus, QuantumSecure::decrypt_transaction*)
(*    of the sharding crate, the SHA-256 nonce search) are inputs: every   *)
(*    answer their signature admits is explored.                           *)
(***************************************************************************)
EXTENDS Integers, Sequences, FiniteSets, Bags, TLC

(***************************************************************************)
(* Bounds of the exploration                                               *)
(***************************************************************************)
MaxShards == 2          \* num_shards passed to new() ranges over 0..MaxShards
MaxTxId == 2            \* transactions are identified by 1..MaxTxId
MaxPending == 5         \* assignments stop when this many are pending in total
TimeStep == 30000       \* granularity of the clock, in ms
MaxTime == 120000       \* the clock stops here
MaxValidators == 2      \* registries of arbitrary validators have at most this size
MaxUniformValidators == 10  \* size of the largest registry of active validators
MaxChain == 2           \* finalize_block is not called on a longer chain
MaxAttempts == 3        \* depth at which the recursion of finalize_block is cut
MaxDifficulty == 5      \* pow_difficulty is not raised beyond this
MaxSamples == 4         \* the metrics history is not grown beyond this length
MaxAdjustments == 3     \* adjust_validators runs at most this many times
MaxQueue == 2           \* a shard starts with at most this many pending transactions
MaxCoreChain == 3       \* Blockchain.chain is not grown beyond this length
MaxBalance == 3         \* balances are not followed beyond this
MaxPoolSize == 4        \* max_size passed to TransactionPool::new ranges over 0..MaxPoolSize
MaxNonce == 10          \* stands for the 10_000_000 of pow_algorithm: the last nonce tried

(***************************************************************************)
(* Program constants                                                       *)
(***************************************************************************)
INITIAL_LOAD_THRESHOLD == 10
REBALANCE_PERIOD == 60000
POS_REPUTATION == 800           \* pos_algorithm: reputation > 0.8
LEADER_REPUTATION == 700        \* select_pbft_leader: reputation > 0.7
VOTE_REPUTATION == 750          \* collect_votes: reputation > 0.75
QUORUM_PERCENT == 66            \* has_quorum: len * 0.66
INITIAL_POW_DIFFICULTY == 4
HASHRATE_THRESHOLD == 500
KNN_NEIGHBOURS == 3             \* NearestNeighbour::new(3)
POW_RELIABILITY == 60           \* predicted reliability < 0.6, in hundredths
PBFT_RELIABILITY == 80          \* predicted reliability < 0.8, in hundredths

VARIABLES
    shards,                     \* shard_id -> [transactions, load]
    load_threshold,
    last_rebalance_timestamp,
    db,                         \* the RocksDB store: shard_id -> record
    now,                        \* the system clock read by current_time()
    mon,                        \* position inside monitor_and_auto_rebalance
    panicked,                   \* an unwrap() failed: the caller unwound
    ev,                         \* what the last shard operation did
    validators,                 \* id -> [reputation, stake, active]
    consensus_mode,
    pow_difficulty,
    blocks,                     \* BlockchainState.blocks
    fin,                        \* position inside finalize_block
    cev,                        \* what the last consensus step did
    ai_consensus_mode,          \* AIAdaptiveConsensus.consensus_mode
    ai_validators,              \* id -> [reputation, latency, stake]
    network_load,
    average_latency,
    reliability,                \* in hundredths
    adjustments,                \* how many times adjust_validators has run
    mode_change_events,         \* how many mode changes have been announced
    aev,                        \* what the last selector operation did
    rb,                         \* position inside rebalance_shards, statement by statement
    pw,                         \* position inside pow_algorithm, iteration by iteration
    lk,                         \* the shard mutexes held by the calling thread, and its position
    chain,                      \* Blockchain.chain
    balances,                   \* Blockchain.state.balances: account -> u64
    bev,                        \* what the last Blockchain operation did
    pool,                       \* TransactionPool.pool
    max_size,                   \* TransactionPool.max_size
    pev                         \* what the last TransactionPool operation did

shardVars == <<shards, load_threshold, last_rebalance_timestamp, db, now, mon,
               panicked, ev>>

consVars == <<validators, consensus_mode, pow_difficulty, blocks, fin, cev>>

adaptVars == <<ai_consensus_mode, ai_validators, network_load, average_latency,
               reliability, adjustments, mode_change_events, aev>>

coreVars == <<chain, balances, bev, pool, max_size, pev>>

vars == <<shardVars, consVars, adaptVars, rb, pw, lk, coreVars>>

ShardIds == DOMAIN shards
TxIds == 1..MaxTxId

MonIdle == [pc |-> "idle", avg_load |-> 0, current_time |-> 0, todo |-> {}]

RECURSIVE SumLoads(_, _)
SumLoads(sh, ids) ==
    IF ids = {} THEN 0
    ELSE LET s == CHOOSE x \in ids : TRUE
         IN  sh[s].load + SumLoads(sh, ids \ {s})

TotalPending(sh) ==
    LET RECURSIVE Tot(_)
        Tot(ids) == IF ids = {} THEN 0
                    ELSE LET s == CHOOSE x \in ids : TRUE
                         IN  Len(sh[s].transactions) + Tot(ids \ {s})
    IN  Tot(DOMAIN sh)

(***************************************************************************)
(* BLEEPShardingModule::new                                                *)
(***************************************************************************)
new(num_shards) ==
    /\ shards = [s \in 0..(num_shards - 1) |-> [transactions |-> <<>>, load |-> 0]]
    /\ load_threshold = INITIAL_LOAD_THRESHOLD
    /\ last_rebalance_timestamp = now
    /\ db = [s \in 0..(num_shards - 1) |-> [present |-> FALSE, data |-> <<>>]]

ShardInit ==
    /\ now = 0
    /\ \E num_shards \in 0..MaxShards : new(num_shards)
    /\ mon = MonIdle
    /\ panicked = FALSE
    /\ ev = [op |-> "new"]

(***************************************************************************)
(* persist_shard_state: each transaction is rendered with                  *)
(* serde_json::to_string, and the resulting Vec<String> is rendered again: *)
(* the stored value is a JSON array of JSON strings.                       *)
(***************************************************************************)
to_string(tx) == [kind |-> "string", tx |-> tx]

persist_shard_state(sh, d, shard_id) ==
    [d EXCEPT ![shard_id] =
        [present |-> TRUE,
         data |-> [i \in DOMAIN sh[shard_id].transactions |->
                      to_string(sh[shard_id].transactions[i])]]]

(***************************************************************************)
(* serde_json::from_slice::<Vec<Transaction>>: succeeds when every element *)
(* of the array is a JSON object of a Transaction; a JSON string is not.   *)
(***************************************************************************)
from_slice(data) ==
    IF \A i \in DOMAIN data : data[i].kind = "object"
    THEN [ok |-> TRUE, value |-> [i \in DOMAIN data |-> data[i].tx]]
    ELSE [ok |-> FALSE, value |-> <<>>]

(* the average rounded up instead of truncated *)
calculate_avg_load_ceil(sh) ==
    IF DOMAIN sh = {} THEN 0
    ELSE (SumLoads(sh, DOMAIN sh) + Cardinality(DOMAIN sh) - 1) \div Cardinality(DOMAIN sh)

calculate_avg_load(sh) ==
    IF DOMAIN sh = {} THEN 0 ELSE SumLoads(sh, DOMAIN sh) \div Cardinality(DOMAIN sh)

(* a prediction that does not look at the loads *)
predict_any_shard(sh) == DOMAIN sh

(* the shards predict_least_loaded_shard may return: the first shard, in   *)
(* HashMap order, whose load is the minimum                                *)
predict_least_loaded_shard(sh) ==
    {s \in DOMAIN sh : \A o \in DOMAIN sh : sh[s].load <= sh[o].load}

(* the ids select_target_shard may return: a random shard of load below    *)
(* load_threshold, or 0 when there is none                                 *)
select_target_shard(sh, threshold) ==
    LET below_avg_shards == {s \in DOMAIN sh : sh[s].load < threshold}
    IN  IF below_avg_shards = {} THEN {0} ELSE below_avg_shards

(* rebalance_shards that appends to the target and forgets pop_front *)
rebalance_shards_no_pop(sh, d, source_id, target_id, decrypt_ok) ==
    IF sh[source_id].transactions = <<>> THEN [shards |-> sh, db |-> d, outcome |-> "source_empty", context |-> {}]
    ELSE IF ~decrypt_ok THEN [shards |-> sh, db |-> d, outcome |-> "decrypt_failed", context |-> {source_id}]
    ELSE
        LET tx == Head(sh[source_id].transactions)
            pushed == [sh EXCEPT ![target_id].transactions = Append(@, tx)]
        IN  [shards |-> pushed,
             db |-> persist_shard_state(pushed, persist_shard_state(pushed, d, source_id), target_id),
             outcome |-> "moved", context |-> {source_id}]

(* rebalance_shards that takes the transaction off the source before it   *)
(* tries to decrypt                                                        *)
rebalance_shards_pop_first(sh, d, source_id, target_id, decrypt_ok) ==
    IF sh[source_id].transactions = <<>> THEN [shards |-> sh, db |-> d, outcome |-> "source_empty", context |-> {}]
    ELSE
        LET tx == Head(sh[source_id].transactions)
            popped == [sh EXCEPT ![source_id].transactions = Tail(@)]
            pushed == [popped EXCEPT ![target_id].transactions = Append(@, tx)]
        IN  IF ~decrypt_ok THEN [shards |-> popped, db |-> d, outcome |-> "decrypt_failed", context |-> {source_id}]
            ELSE [shards |-> pushed,
                  db |-> persist_shard_state(pushed, persist_shard_state(pushed, d, source_id), target_id),
                  outcome |-> "moved", context |-> {source_id}]

(***************************************************************************)
(* rebalance_shards(source_id, target_id); decrypt_ok is the outcome of    *)
(* target_shard.quantum_security.decrypt_transaction.  An authenticated    *)
(* decryption that succeeds returns the transaction that was encrypted.    *)
(* Yields the shards and the store after the call.                         *)
(***************************************************************************)
rebalance_shards(sh, d, source_id, target_id, decrypt_ok) ==
    IF sh[source_id].transactions = <<>> THEN [shards |-> sh, db |-> d, outcome |-> "source_empty", context |-> {}]
    ELSE IF ~decrypt_ok THEN [shards |-> sh, db |-> d, outcome |-> "decrypt_failed", context |-> {source_id}]
    ELSE
        LET tx == Head(sh[source_id].transactions)
            pushed == [sh EXCEPT ![target_id].transactions = Append(@, tx)]
            popped == [pushed EXCEPT ![source_id].transactions = Tail(@)]
        IN  [shards |-> popped,
             db |-> persist_shard_state(popped, persist_shard_state(popped, d, source_id), target_id),
             outcome |-> "moved", context |-> {source_id}]

(* monitor_and_auto_rebalance without the cooldown test *)
MonitorEnterNoCooldown(sh) ==
    IF DOMAIN sh = {}
    THEN /\ mon' = MonIdle
         /\ load_threshold' = calculate_avg_load(sh) + 2
         /\ last_rebalance_timestamp' = now
    ELSE /\ mon' = [pc |-> "loop", avg_load |-> calculate_avg_load(sh),
                    current_time |-> now, todo |-> DOMAIN sh]
         /\ UNCHANGED <<load_threshold, last_rebalance_timestamp>>

(***************************************************************************)
(* monitor_and_auto_rebalance, entry: the cooldown test and the average.   *)
(* With no shard to iterate the function runs straight to its last two     *)
(* assignments.                                                            *)
(***************************************************************************)
MonitorEnter(sh) ==
    IF now - last_rebalance_timestamp < REBALANCE_PERIOD
    THEN /\ mon' = MonIdle
         /\ UNCHANGED <<load_threshold, last_rebalance_timestamp>>
    ELSE IF DOMAIN sh = {}
    THEN /\ mon' = MonIdle
         /\ load_threshold' = calculate_avg_load(sh) + 2
         /\ last_rebalance_timestamp' = now
    ELSE /\ mon' = [pc |-> "loop", avg_load |-> calculate_avg_load(sh),
                    current_time |-> now, todo |-> DOMAIN sh]
         /\ UNCHANGED <<load_threshold, last_rebalance_timestamp>>

(* the test of tests.rs:62 calls monitor_and_auto_rebalance directly *)
MonitorAndAutoRebalance ==
    /\ ~panicked
    /\ mon.pc = "idle"
    /\ MonitorEnter(shards)
    /\ ev' = [op |-> "monitor", entered |-> now - last_rebalance_timestamp >= REBALANCE_PERIOD]
    /\ UNCHANGED <<shards, db, now, panicked, consVars, adaptVars, rb, pw, lk, coreVars>>

(* the loop body moving without the answer of the consensus gate *)
MonitorStepUngated(source_id, target_id, gate, decrypt_ok) ==
    /\ ~panicked
    /\ mon.pc = "loop"
    /\ source_id \in mon.todo
    /\ LET above == shards[source_id].load > mon.avg_load
           call == above /\ source_id # target_id
           r == IF call THEN rebalance_shards(shards, db, source_id, target_id, decrypt_ok)
                ELSE [shards |-> shards, db |-> db,
                      outcome |-> IF ~above THEN "not_above_avg" ELSE "same_shard",
                      context |-> {}]
           rest == mon.todo \ {source_id}
       IN  /\ IF above THEN target_id \in select_target_shard(shards, load_threshold)
                       ELSE target_id = source_id
           /\ shards' = r.shards
           /\ db' = r.db
           /\ ev' = [op |-> "monitor_step", source |-> source_id, target |-> target_id,
                     gate |-> gate, outcome |-> r.outcome,
                     encrypt_context |-> r.context]
           /\ IF rest = {}
              THEN /\ load_threshold' = mon.avg_load + 2
                   /\ last_rebalance_timestamp' = mon.current_time
                   /\ mon' = MonIdle
              ELSE /\ mon' = [mon EXCEPT !.todo = rest]
                   /\ UNCHANGED <<load_threshold, last_rebalance_timestamp>>
    /\ UNCHANGED <<now, panicked, consVars, adaptVars, rb, pw, lk, coreVars>>

(***************************************************************************)
(* One iteration of the for loop of monitor_and_auto_rebalance, for the    *)
(* shard source_id; the last iteration is followed by the two assignments  *)
(* that close the function.                                                *)
(***************************************************************************)
MonitorStep(source_id, target_id, gate, decrypt_ok) ==
    /\ ~panicked
    /\ mon.pc = "loop"
    /\ source_id \in mon.todo
    /\ LET above == shards[source_id].load > mon.avg_load
           consulted == above /\ source_id # target_id
           call == consulted /\ gate
       IN  \* the target, the gate and the decryption are inputs only where
           \* the loop body reaches them
           /\ IF above THEN target_id \in select_target_shard(shards, load_threshold)
                       ELSE target_id = source_id
           /\ ~consulted => ~gate
           /\ ~call => ~decrypt_ok
    /\ LET above == shards[source_id].load > mon.avg_load
           call == above /\ source_id # target_id /\ gate
           r == IF call THEN rebalance_shards(shards, db, source_id, target_id, decrypt_ok)
                ELSE [shards |-> shards, db |-> db,
                      outcome |-> IF ~above THEN "not_above_avg"
                                  ELSE IF source_id = target_id THEN "same_shard"
                                  ELSE "gate_rejected",
                      context |-> {}]
           rest == mon.todo \ {source_id}
       IN  /\ shards' = r.shards
           /\ db' = r.db
           /\ ev' = [op |-> "monitor_step", source |-> source_id, target |-> target_id,
                     gate |-> gate, outcome |-> r.outcome,
                     encrypt_context |-> r.context]
           /\ IF rest = {}
              THEN /\ load_threshold' = mon.avg_load + 2
                   /\ last_rebalance_timestamp' = mon.current_time
                   /\ mon' = MonIdle
              ELSE /\ mon' = [mon EXCEPT !.todo = rest]
                   /\ UNCHANGED <<load_threshold, last_rebalance_timestamp>>
    /\ UNCHANGED <<now, panicked, consVars, adaptVars, rb, pw, lk, coreVars>>

(* assign_transaction answering Ok when there is no shard to take the      *)
(* transaction                                                             *)
AssignTransactionSilent(transaction) ==
    /\ ~panicked
    /\ mon.pc = "idle"
    /\ TotalPending(shards) < MaxPending
    /\ IF predict_least_loaded_shard(shards) = {}
       THEN /\ ev' = [op |-> "assign", result |-> "Ok", shard |-> 0, monitor |-> FALSE]
            /\ UNCHANGED <<shards, load_threshold, last_rebalance_timestamp, db, mon>>
       ELSE \E shard_id \in predict_least_loaded_shard(shards) :
              LET after == [shards EXCEPT ![shard_id] =
                               [transactions |-> Append(@.transactions, transaction),
                                load |-> @.load + 1]]
              IN  /\ shards' = after
                  /\ db' = persist_shard_state(after, db, shard_id)
                  /\ IF after[shard_id].load > load_threshold
                     THEN MonitorEnter(after)
                     ELSE UNCHANGED <<load_threshold, last_rebalance_timestamp, mon>>
                  /\ ev' = [op |-> "assign", result |-> "Ok", shard |-> shard_id,
                            monitor |-> after[shard_id].load > load_threshold]
    /\ UNCHANGED <<now, panicked, consVars, adaptVars, rb, pw, lk, coreVars>>

(***************************************************************************)
(* assign_transaction                                                      *)
(***************************************************************************)
AssignTransaction(transaction) ==
    /\ ~panicked
    /\ mon.pc = "idle"
    /\ TotalPending(shards) < MaxPending
    /\ IF predict_least_loaded_shard(shards) = {}
       THEN /\ ev' = [op |-> "assign", result |-> "PredictionError"]
            /\ UNCHANGED <<shards, load_threshold, last_rebalance_timestamp, db, mon>>
       ELSE \E shard_id \in predict_least_loaded_shard(shards) :
              LET after == [shards EXCEPT ![shard_id] =
                               [transactions |-> Append(@.transactions, transaction),
                                load |-> @.load + 1]]
              IN  /\ shards' = after
                  /\ db' = persist_shard_state(after, db, shard_id)
                  /\ IF after[shard_id].load > load_threshold
                     THEN MonitorEnter(after)
                     ELSE UNCHANGED <<load_threshold, last_rebalance_timestamp, mon>>
                  /\ ev' = [op |-> "assign", result |-> "Ok", shard |-> shard_id,
                            monitor |-> after[shard_id].load > load_threshold]
    /\ UNCHANGED <<now, panicked, consVars, adaptVars, rb, pw, lk, coreVars>>

(***************************************************************************)
(* load_shard_state: the loop stops, by the unwrap() of line 153, at the   *)
(* first shard whose record does not parse; the shards met before it have  *)
(* been reloaded.                                                          *)
(***************************************************************************)
LoadShardState ==
    /\ ~panicked
    /\ mon.pc = "idle"
    /\ LET good == {s \in ShardIds : db[s].present /\ from_slice(db[s].data).ok}
           bad == {s \in ShardIds : db[s].present /\ ~from_slice(db[s].data).ok}
       IN  \E loaded \in SUBSET good :
              /\ bad = {} => loaded = good
              /\ shards' = [s \in ShardIds |->
                              IF s \in loaded
                              THEN [transactions |-> from_slice(db[s].data).value,
                                    load |-> Len(from_slice(db[s].data).value)]
                              ELSE shards[s]]
              /\ panicked' = (bad # {})
              /\ ev' = [op |-> "load_shard_state", loaded |-> loaded]
    /\ UNCHANGED <<load_threshold, last_rebalance_timestamp, db, now, mon, consVars, adaptVars, rb, pw, lk, coreVars>>

Tick ==
    /\ ~panicked
    /\ mon.pc = "idle"
    /\ now + TimeStep <= MaxTime
    /\ now' = now + TimeStep
    /\ ev' = [op |-> "tick"]
    /\ UNCHANGED <<shards, load_threshold, last_rebalance_timestamp, db, mon, panicked, consVars, adaptVars, rb, pw, lk, coreVars>>

(***************************************************************************)
(* rebalance_shards, statement by statement.  rb.locked holds the shards   *)
(* whose MutexGuard the call owns: their queues cannot be read by another  *)
(* holder of the Arc until the guards are dropped at the end of the call.  *)
(* The store is an Arc<DB> without a lock: every put is visible at once.   *)
(***************************************************************************)
RbIdle == [pc |-> "idle", source_id |-> 0, target_id |-> 0, locked |-> {}]

MoveUnused == rb = RbIdle

(* lines 122-123: the two lock() calls *)
RebalanceLock(source_id, target_id) ==
    /\ ~panicked
    /\ mon.pc = "idle"
    /\ rb.pc = "idle"
    /\ source_id # target_id
    /\ rb' = [pc |-> "front", source_id |-> source_id, target_id |-> target_id,
              locked |-> {source_id, target_id}]
    /\ ev' = [op |-> "rebalance_shards", step |-> "lock"]
    /\ UNCHANGED <<shards, load_threshold, last_rebalance_timestamp, db, now, mon,
                   panicked, consVars, adaptVars, pw, lk, coreVars>>

(* lines 125-127 and 133-136: front().cloned(), encrypt_transaction,       *)
(* decrypt_transaction; the call returns when the queue is empty or the    *)
(* decryption fails                                                        *)
RebalanceFront(decrypt_ok) ==
    /\ rb.pc = "front"
    /\ shards[rb.source_id].transactions = <<>> => ~decrypt_ok
    /\ rb' = IF decrypt_ok THEN [rb EXCEPT !.pc = "push_back"] ELSE RbIdle
    /\ ev' = [op |-> "rebalance_shards", step |-> "front"]
    /\ UNCHANGED <<shards, load_threshold, last_rebalance_timestamp, db, now, mon,
                   panicked, consVars, adaptVars, pw, lk, coreVars>>

(* line 128: target_shard.transactions.push_back(decrypted_tx) *)
RebalancePushBack ==
    /\ rb.pc = "push_back"
    /\ shards' = [shards EXCEPT ![rb.target_id].transactions =
                     Append(@, Head(shards[rb.source_id].transactions))]
    /\ rb' = [rb EXCEPT !.pc = "pop_front"]
    /\ ev' = [op |-> "rebalance_shards", step |-> "push_back"]
    /\ UNCHANGED <<load_threshold, last_rebalance_timestamp, db, now, mon,
                   panicked, consVars, adaptVars, pw, lk, coreVars>>

(* line 129: source_shard.transactions.pop_front() *)
RebalancePopFront ==
    /\ rb.pc = "pop_front"
    /\ shards' = [shards EXCEPT ![rb.source_id].transactions = Tail(@)]
    /\ rb' = [rb EXCEPT !.pc = "persist_source"]
    /\ ev' = [op |-> "rebalance_shards", step |-> "pop_front"]
    /\ UNCHANGED <<load_threshold, last_rebalance_timestamp, db, now, mon,
                   panicked, consVars, adaptVars, pw, lk, coreVars>>

(* line 130: self.persist_shard_state(source_id) *)
RebalancePersistSource ==
    /\ rb.pc = "persist_source"
    /\ db' = persist_shard_state(shards, db, rb.source_id)
    /\ rb' = [rb EXCEPT !.pc = "persist_target"]
    /\ ev' = [op |-> "rebalance_shards", step |-> "persist_source"]
    /\ UNCHANGED <<shards, load_threshold, last_rebalance_timestamp, now, mon,
                   panicked, consVars, adaptVars, pw, lk, coreVars>>

(* line 131: self.persist_shard_state(target_id), and the end of the call, *)
(* where both guards are dropped                                           *)
RebalancePersistTarget ==
    /\ rb.pc = "persist_target"
    /\ db' = persist_shard_state(shards, db, rb.target_id)
    /\ rb' = RbIdle
    /\ ev' = [op |-> "rebalance_shards", step |-> "persist_target"]
    /\ UNCHANGED <<shards, load_threshold, last_rebalance_timestamp, now, mon,
                   panicked, consVars, adaptVars, pw, lk, coreVars>>

(***************************************************************************)
(* The shard mutexes.  Every shard sits behind a std::sync::Mutex; a       *)
(* MutexGuard bound to a name is held until the name goes out of scope, a  *)
(* guard taken inside an expression is dropped at the end of it.  lk.held  *)
(* is the set of shards whose guard the calling thread owns.  Locking a    *)
(* std Mutex in the thread that holds it does not return: it deadlocks or  *)
(* panics, the library leaves open which.                                  *)
(***************************************************************************)
LkIdle == [pc |-> "idle", op |-> "none", held |-> {}, shard_id |-> 0,
           avg_load |-> 0, current_time |-> 0, todo |-> {}]

LocksUnused == lk = LkIdle

RelockOutcomes == {"deadlocked", "panicked"}

(* the thread after a lock() on a mutex of its own: parked for ever with   *)
(* its guards, or unwinding, which drops them                              *)
relock(position, outcome) ==
    [position EXCEPT !.pc = outcome,
                     !.held = IF outcome = "panicked" THEN {} ELSE @]

(* assign_transaction up to the call of persist_shard_state: the           *)
(* prediction locks each shard for the time of a read; shard is the guard  *)
(* of the chosen shard and lives to the end of the function                *)
LockAssign(transaction) ==
    /\ lk.pc = "idle"
    /\ IF predict_least_loaded_shard(shards) = {}
       THEN /\ ev' = [op |-> "lock_assign", result |-> "PredictionError"]
            /\ UNCHANGED <<shards, lk, coreVars>>
       ELSE \E shard_id \in predict_least_loaded_shard(shards) :
              /\ shards' = [shards EXCEPT ![shard_id] =
                               [transactions |-> Append(@.transactions, transaction),
                                load |-> @.load + 1]]
              /\ lk' = [LkIdle EXCEPT !.pc = "assign_persist",
                                      !.op = "assign_transaction",
                                      !.held = {shard_id}, !.shard_id = shard_id]
              /\ ev' = [op |-> "lock_assign", result |-> "locked"]
    /\ UNCHANGED <<load_threshold, last_rebalance_timestamp, db, now, mon, panicked,
                   consVars, adaptVars, rb, pw, coreVars>>

(* persist_shard_state(shard_id) called by assign_transaction: its first   *)
(* statement locks the shard whose guard the caller holds                  *)
LockAssignPersist(outcome) ==
    /\ lk.pc = "assign_persist"
    /\ lk.shard_id \in lk.held
    /\ lk' = relock(lk, outcome)
    /\ ev' = [op |-> "lock_persist", shard_id |-> lk.shard_id]
    /\ UNCHANGED <<shards, load_threshold, last_rebalance_timestamp, db, now, mon,
                   panicked, consVars, adaptVars, rb, pw, coreVars>>

(* monitor_and_auto_rebalance entered with no guard held: the cooldown     *)
(* test, then calculate_avg_load, which locks each shard for a read        *)
LockMonitorEnter ==
    /\ lk.pc = "idle"
    /\ IF now - last_rebalance_timestamp < REBALANCE_PERIOD
       THEN /\ ev' = [op |-> "lock_monitor", result |-> "cooldown"]
            /\ UNCHANGED lk
       ELSE /\ lk' = [LkIdle EXCEPT !.pc = "monitor_loop",
                                    !.op = "monitor_and_auto_rebalance",
                                    !.avg_load = calculate_avg_load(shards),
                                    !.current_time = now,
                                    !.todo = ShardIds]
            /\ ev' = [op |-> "lock_monitor", result |-> "evaluating"]
    /\ UNCHANGED <<shards, load_threshold, last_rebalance_timestamp, db, now, mon,
                   panicked, consVars, adaptVars, rb, pw, coreVars>>

(* one turn of the loop over the shards, in HashMap order: source_shard is *)
(* the guard of the shard of this turn; a shard not above the average ends *)
(* the turn, which drops the guard                                         *)
LockMonitorSource(source_id) ==
    /\ lk.pc = "monitor_loop"
    /\ source_id \in lk.todo
    /\ source_id \notin lk.held
    /\ lk' = IF shards[source_id].load > lk.avg_load
             THEN [lk EXCEPT !.pc = "select_target", !.held = {source_id},
                             !.shard_id = source_id]
             ELSE [lk EXCEPT !.todo = @ \ {source_id}]
    /\ ev' = [op |-> "lock_source", shard_id |-> source_id]
    /\ UNCHANGED <<shards, load_threshold, last_rebalance_timestamp, db, now, mon,
                   panicked, consVars, adaptVars, rb, pw, coreVars>>

(* select_target_shard called with source_shard held: its filter locks     *)
(* every shard of the map, the source among them                           *)
LockSelectTarget(outcome) ==
    /\ lk.pc = "select_target"
    /\ lk.held \cap ShardIds # {}
    /\ lk' = relock(lk, outcome)
    /\ ev' = [op |-> "lock_select_target", shard_id |-> lk.shard_id]
    /\ UNCHANGED <<shards, load_threshold, last_rebalance_timestamp, db, now, mon,
                   panicked, consVars, adaptVars, rb, pw, coreVars>>

(* the loop is over: the threshold and the timestamp are written *)
LockMonitorFinish ==
    /\ lk.pc = "monitor_loop"
    /\ lk.todo = {}
    /\ load_threshold' = lk.avg_load + 2
    /\ last_rebalance_timestamp' = lk.current_time
    /\ lk' = LkIdle
    /\ ev' = [op |-> "lock_monitor", result |-> "finished"]
    /\ UNCHANGED <<shards, db, now, mon, panicked, consVars, adaptVars, rb, pw, coreVars>>

(***************************************************************************)
(* BLEEPAdaptiveConsensus                                                  *)
(***************************************************************************)
ConsensusModes == {"PoS", "PBFT", "PoW"}

ValidatorIds == DOMAIN validators

NoValidator == 0

FinIdle == [pc |-> "idle", block |-> [index |-> 0, previous_hash |-> <<>>],
            attempts |-> 0, leader |-> NoValidator, prepare_votes |-> {},
            log |-> <<>>]

(* BLEEPAdaptiveConsensus::new, over the registry passed in *)
consensus_new(registry) ==
    /\ consensus_mode = "PoS"
    /\ validators = registry
    /\ pow_difficulty = INITIAL_POW_DIFFICULTY

(* the registries explored: every registry of at most MaxValidators        *)
(* validators, one per order of its members, and the registries of up to   *)
(* MaxUniformValidators active validators, the first of the highest stake, *)
(* of which the first k have a reputation above the voting threshold       *)
ValidatorKinds ==
    {k \in [reputation : {LEADER_REPUTATION, VOTE_REPUTATION, POS_REPUTATION,
                          POS_REPUTATION + 10},
            stake : {1, 2},
            active : BOOLEAN] :
        k.active \/ k.reputation \in {VOTE_REPUTATION, POS_REPUTATION + 10}}

KindRank(v) == v.reputation * 100 + v.stake * 10 + (IF v.active THEN 1 ELSE 0)

Registries ==
    UNION {{r \in [1..n -> ValidatorKinds] :
                \A i \in 1..n, j \in 1..n : i < j => KindRank(r[i]) <= KindRank(r[j])}
           : n \in 0..MaxValidators}
    \cup
    UNION {{[i \in 1..n |-> [reputation |-> IF i <= k THEN VOTE_REPUTATION + 10
                                                       ELSE VOTE_REPUTATION,
                             stake |-> IF i = 1 THEN 2 ELSE 1, active |-> TRUE]]
            : k \in 0..n}
           : n \in (MaxValidators + 1)..MaxUniformValidators}

ConsensusInit ==
    /\ \E registry \in Registries : consensus_new(registry)
    /\ blocks = <<>>
    /\ fin = FinIdle
    /\ cev = [op |-> "new"]

(* Block::compute_hash: a digest of the block's fields, taken to be free   *)
(* of collisions; a hash is a sequence, the empty one being the empty      *)
(* string                                                                  *)
compute_hash(block) ==
    <<block.index>>
    \o (IF "merkle_root" \in DOMAIN block THEN <<block.merkle_root>> ELSE <<>>)
    \o block.previous_hash

BogusHash == <<-1>>

TipHash == IF blocks = <<>> THEN <<>> ELSE compute_hash(blocks[Len(blocks)])

(* the blocks handed to finalize_block: the well-formed successor of the   *)
(* tip, one with a foreign previous_hash, one that skips an index          *)
BlockInputs ==
    {[index |-> Len(blocks), previous_hash |-> TipHash],
     [index |-> Len(blocks), previous_hash |-> BogusHash],
     [index |-> Len(blocks) + 1, previous_hash |-> TipHash]}

(* BlockchainState::add_block (consensus wrapper over the core state):     *)
(* pushes the block and answers Ok                                         *)
add_block(state_blocks, block) == [blocks |-> Append(state_blocks, block), is_ok |-> TRUE]

(* NetworkingModule::broadcast_proposal forwards to broadcast_block, which *)
(* answers true                                                            *)
broadcast_proposal(block, leader_id) == TRUE

get_network_hashrate == 1000000

(* validators_sorted.first() after the stable sort by descending stake of  *)
(* the registry's values: any validator of the highest stake               *)
pos_selected(vals) ==
    {v \in DOMAIN vals : \A o \in DOMAIN vals : vals[v].stake >= vals[o].stake}

(* select_pbft_leader without the test of the active flag *)
select_pbft_leader_ignoring_active(vals) ==
    LET active_validators ==
            {v \in DOMAIN vals : vals[v].reputation > LEADER_REPUTATION}
    IN  {v \in active_validators :
            \A o \in active_validators : vals[v].stake >= vals[o].stake}

(* select_pbft_leader: the candidates max_by may return; empty for None *)
select_pbft_leader(vals) ==
    LET active_validators ==
            {v \in DOMAIN vals : vals[v].active /\ vals[v].reputation > LEADER_REPUTATION}
    IN  {v \in active_validators :
            \A o \in active_validators : vals[v].stake >= vals[o].stake}

collect_votes(vals, phase) ==
    {v \in DOMAIN vals : vals[v].reputation > VOTE_REPUTATION}

(* the threshold rounded down instead of up *)
required_votes_floor(len) == (len * QUORUM_PERCENT) \div 100

(* (len as f64 * 0.66).ceil(): for every len the f64 product is within     *)
(* half an ulp of len * 66 / 100, which is an integer or at least 0.02     *)
(* away from one, so the result is the exact ceiling                       *)
required_votes(len) == (len * QUORUM_PERCENT + 99) \div 100

has_quorum(vals, votes) == Cardinality(votes) >= required_votes(Cardinality(DOMAIN vals))

(* adjust_pow_difficulty with the hashrate comparison turned round *)
adjust_pow_difficulty_inverted(difficulty) ==
    IF get_network_hashrate < HASHRATE_THRESHOLD THEN difficulty + 1
    ELSE IF difficulty > 2 THEN difficulty - 1
    ELSE difficulty

adjust_pow_difficulty(difficulty) ==
    IF get_network_hashrate > HASHRATE_THRESHOLD THEN difficulty + 1
    ELSE IF difficulty > 2 THEN difficulty - 1
    ELSE difficulty

(* switch_consensus_mode let in while a finalization is under way *)
SwitchConsensusModeAnytime(predicted_mode) ==
    /\ consensus_mode' = predicted_mode
    /\ cev' = [op |-> "switch"]
    /\ UNCHANGED <<validators, pow_difficulty, blocks, fin, shardVars, adaptVars, rb, pw, lk, coreVars>>

(* switch_consensus_mode, called between finalizations; predicted_mode is  *)
(* the answer of ai_engine.predict_consensus                               *)
SwitchConsensusMode(predicted_mode) ==
    /\ fin.pc = "idle"
    /\ consensus_mode' = predicted_mode
    /\ cev' = [op |-> "switch"]
    /\ UNCHANGED <<validators, pow_difficulty, blocks, fin, shardVars, adaptVars, rb, pw, lk, coreVars>>

(* finalize_block is entered by a caller *)
FinalizeBlock(block) ==
    /\ fin.pc = "idle"
    /\ Len(blocks) < MaxChain
    /\ fin' = [FinIdle EXCEPT !.pc = "match", !.block = block, !.attempts = 1]
    /\ cev' = [op |-> "finalize_block"]
    /\ UNCHANGED <<validators, consensus_mode, pow_difficulty, blocks, shardVars, adaptVars, rb, pw, lk, coreVars>>

(***************************************************************************)
(* The end of finalize_block once the algorithm has answered: Ok(()) on    *)
(* success; otherwise switch_consensus_mode(50, 40) and the recursive call *)
(* on the same block.                                                      *)
(***************************************************************************)
Conclude(success, predicted_mode) ==
    IF success
    THEN /\ fin' = FinIdle
         /\ UNCHANGED consensus_mode
    ELSE /\ fin.attempts < MaxAttempts
         /\ consensus_mode' = predicted_mode
         /\ fin' = [FinIdle EXCEPT !.pc = "match", !.block = fin.block,
                                   !.attempts = fin.attempts + 1]

(* match arm PoS: pos_algorithm *)
PosAttempt(selected_validator, predicted_mode) ==
    /\ fin.pc = "match"
    /\ consensus_mode = "PoS"
    /\ \/ selected_validator \in pos_selected(validators)
       \/ pos_selected(validators) = {} /\ selected_validator = NoValidator
    /\ LET found == selected_validator # NoValidator
           reputable == found /\ validators[selected_validator].reputation > POS_REPUTATION
           r == IF reputable THEN add_block(blocks, fin.block)
                ELSE [blocks |-> blocks, is_ok |-> FALSE]
       IN  /\ blocks' = r.blocks
           /\ Conclude(r.is_ok, predicted_mode)
           /\ cev' = [op |-> "pos", ok |-> r.is_ok,
                      producer |-> selected_validator, log |-> <<>>]
    /\ UNCHANGED <<validators, pow_difficulty, shardVars, adaptVars, rb, pw, lk, coreVars>>

(* match arm PoW: pow_algorithm; found says whether a nonce below the      *)
(* attempt bound gives a hash with pow_difficulty leading zeros            *)
PowAttempt(found, predicted_mode) ==
    /\ fin.pc = "match"
    /\ consensus_mode = "PoW"
    /\ found => pow_difficulty < MaxDifficulty
    /\ pow_difficulty' = IF found THEN adjust_pow_difficulty(pow_difficulty)
                         ELSE pow_difficulty
    /\ Conclude(found, predicted_mode)
    /\ cev' = [op |-> "pow", ok |-> found, log |-> <<>>]
    /\ UNCHANGED <<validators, blocks, shardVars, adaptVars, rb, pw, lk, coreVars>>

(* match arm PBFT: pbft_algorithm up to the leader test *)
PbftSelectLeader(leader, predicted_mode) ==
    /\ fin.pc = "match"
    /\ consensus_mode = "PBFT"
    /\ \/ leader \in select_pbft_leader(validators)
       \/ select_pbft_leader(validators) = {} /\ leader = NoValidator
    /\ IF leader = NoValidator
       THEN /\ Conclude(FALSE, predicted_mode)
            /\ cev' = [op |-> "pbft", phase |-> "leader",
                       ok |-> FALSE, leader |-> leader, log |-> <<>>]
       ELSE /\ fin' = [fin EXCEPT !.pc = "broadcast", !.leader = leader,
                                  !.log = <<"leader">>]
            /\ cev' = [op |-> "pbft", phase |-> "leader",
                       ok |-> TRUE, leader |-> leader, log |-> <<"leader">>]
            /\ UNCHANGED consensus_mode
    /\ UNCHANGED <<validators, pow_difficulty, blocks, shardVars, adaptVars, rb, pw, lk, coreVars>>

(* pbft_algorithm: broadcast_proposal *)
PbftBroadcast(predicted_mode) ==
    /\ fin.pc = "broadcast"
    /\ LET ok == broadcast_proposal(fin.block, fin.leader)
           log == IF ok THEN Append(fin.log, "broadcast") ELSE fin.log
       IN  /\ IF ok
              THEN /\ fin' = [fin EXCEPT !.pc = "prepare", !.log = log]
                   /\ UNCHANGED consensus_mode
              ELSE Conclude(FALSE, predicted_mode)
           /\ cev' = [op |-> "pbft", phase |-> "broadcast",
                      ok |-> ok, leader |-> fin.leader, log |-> log]
    /\ UNCHANGED <<validators, pow_difficulty, blocks, shardVars, adaptVars, rb, pw, lk, coreVars>>

(* the prepare phase applying the block before it looks at the quorum *)
PbftPrepareAppliesEarly(predicted_mode) ==
    /\ fin.pc = "prepare"
    /\ LET prepare_votes == collect_votes(validators, "prepare")
           ok == has_quorum(validators, prepare_votes)
           log == IF ok THEN Append(fin.log, "prepare") ELSE fin.log
       IN  /\ blocks' = add_block(blocks, fin.block).blocks
           /\ IF ok
              THEN /\ fin' = [fin EXCEPT !.pc = "commit", !.prepare_votes = prepare_votes,
                                         !.log = log]
                   /\ UNCHANGED consensus_mode
              ELSE Conclude(FALSE, predicted_mode)
           /\ cev' = [op |-> "pbft", phase |-> "prepare",
                      ok |-> ok, leader |-> fin.leader, votes |-> prepare_votes,
                      log |-> log]
    /\ UNCHANGED <<validators, pow_difficulty, shardVars, adaptVars, rb, pw, lk, coreVars>>

(* pbft_algorithm: the prepare votes and their quorum *)
PbftPrepare(predicted_mode) ==
    /\ fin.pc = "prepare"
    /\ LET prepare_votes == collect_votes(validators, "prepare")
           ok == has_quorum(validators, prepare_votes)
           log == IF ok THEN Append(fin.log, "prepare") ELSE fin.log
       IN  /\ IF ok
              THEN /\ fin' = [fin EXCEPT !.pc = "commit", !.prepare_votes = prepare_votes,
                                         !.log = log]
                   /\ UNCHANGED consensus_mode
              ELSE Conclude(FALSE, predicted_mode)
           /\ cev' = [op |-> "pbft", phase |-> "prepare",
                      ok |-> ok, leader |-> fin.leader, votes |-> prepare_votes,
                      log |-> log]
    /\ UNCHANGED <<validators, pow_difficulty, blocks, shardVars, adaptVars, rb, pw, lk, coreVars>>

(* pbft_algorithm: the commit votes, their quorum and the application of   *)
(* the block                                                               *)
PbftCommit(predicted_mode) ==
    /\ fin.pc = "commit"
    /\ LET commit_votes == collect_votes(validators, "commit")
           quorum == has_quorum(validators, commit_votes)
           r == IF quorum THEN add_block(blocks, fin.block)
                ELSE [blocks |-> blocks, is_ok |-> FALSE]
           log == IF quorum THEN Append(fin.log, "commit") ELSE fin.log
       IN  /\ blocks' = r.blocks
           /\ Conclude(r.is_ok, predicted_mode)
           /\ cev' = [op |-> "pbft", phase |-> "commit",
                      ok |-> r.is_ok, leader |-> fin.leader, votes |-> commit_votes,
                      prepare_votes |-> fin.prepare_votes, log |-> log]
    /\ UNCHANGED <<validators, pow_difficulty, shardVars, adaptVars, rb, pw, lk, coreVars>>

(***************************************************************************)
(* pow_algorithm, iteration by iteration.  The hash of (block, nonce) is a *)
(* function of the block: pw.first_hit is the least nonce whose hash       *)
(* starts with pow_difficulty zeros, MaxNonce + 1 when no nonce the loop   *)
(* tries does.                                                             *)
(***************************************************************************)
PwIdle == [pc |-> "idle", nonce |-> 0, first_hit |-> 0, result |-> FALSE]

PowUnused == pw = PwIdle

(* finalize_block's match arm PoW calls pow_algorithm: target, nonce = 0 *)
PowEnter(first_hit) ==
    /\ pw.pc # "loop"
    /\ consensus_mode = "PoW"
    /\ first_hit <= MaxNonce => pow_difficulty < MaxDifficulty
    /\ pw' = [pc |-> "loop", nonce |-> 0, first_hit |-> first_hit, result |-> FALSE]
    /\ cev' = [op |-> "pow_enter"]
    /\ UNCHANGED <<validators, consensus_mode, pow_difficulty, blocks, fin,
                   shardVars, adaptVars, rb, lk, coreVars>>

(* the loop body with a nonce that wraps around instead of ending the      *)
(* search                                                                  *)
PowIterateNoBound ==
    /\ pw.pc = "loop"
    /\ IF pw.nonce = pw.first_hit
       THEN /\ pow_difficulty' = adjust_pow_difficulty(pow_difficulty)
            /\ pw' = [pw EXCEPT !.pc = "returned", !.result = TRUE]
       ELSE /\ pw' = [pw EXCEPT !.nonce = (pw.nonce + 1) % (MaxNonce + 1)]
            /\ UNCHANGED pow_difficulty
    /\ cev' = [op |-> "pow_iterate"]
    /\ UNCHANGED <<validators, consensus_mode, blocks, fin, shardVars, adaptVars, rb, lk, coreVars>>

(* one turn of the loop: the hash test, then nonce += 1 and the bound test *)
PowIterate ==
    /\ pw.pc = "loop"
    /\ IF pw.nonce = pw.first_hit
       THEN /\ pow_difficulty' = adjust_pow_difficulty(pow_difficulty)
            /\ pw' = [pw EXCEPT !.pc = "returned", !.result = TRUE]
       ELSE /\ pw' = IF pw.nonce + 1 > MaxNonce
                     THEN [pw EXCEPT !.pc = "returned", !.nonce = pw.nonce + 1,
                                     !.result = FALSE]
                     ELSE [pw EXCEPT !.nonce = pw.nonce + 1]
            /\ UNCHANGED pow_difficulty
    /\ cev' = [op |-> "pow_iterate"]
    /\ UNCHANGED <<validators, consensus_mode, blocks, fin, shardVars, adaptVars, rb, lk, coreVars>>

(***************************************************************************)
(* AIAdaptiveConsensus                                                     *)
(*                                                                         *)
(* Reliabilities are kept in hundredths.  A validator's reputation r and   *)
(* stake s are kept exactly, as the integers r * 100 * 20^adjustments and  *)
(* s * 20^adjustments: every factor of adjust_validators is a multiple of  *)
(* 1/20.  The rounding of the f64 products is not followed.                *)
(***************************************************************************)
Scale(k) == 20 ^ k

(* AIAdaptiveConsensus::new *)
ai_new(registry) ==
    /\ ai_consensus_mode = "PoS"
    /\ ai_validators = registry
    /\ network_load = <<>>
    /\ average_latency = <<>>
    /\ reliability = <<>>

(* the registry of the crate's tests *)
mock_validators ==
    <<[reputation |-> 80, latency |-> 30, stake |-> 1000],
      [reputation |-> 60, latency |-> 50, stake |-> 750],
      [reputation |-> 90, latency |-> 20, stake |-> 1500]>>

(* the registries explored: the one of the tests and one whose validator   *)
(* scores below the penalty line                                           *)
AdaptiveRegistries ==
    {mock_validators, <<[reputation |-> 60, latency |-> 50, stake |-> 100]>>}

(* the f64 that is not a number, among reliabilities in hundredths *)
NaN == -1

(* the samples handed to collect_metrics and run_adaptive_logic: the       *)
(* stream of test_consensus_mode_switching, two samples on the boundaries  *)
(* of the switching rule and one whose reliability is not a number         *)
MetricsInputs ==
    {[load |-> 90, latency |-> 100, reliability |-> 40],
     [load |-> 50, latency |-> 30, reliability |-> 75],
     [load |-> 20, latency |-> 10, reliability |-> 95],
     [load |-> 50, latency |-> 30, reliability |-> POW_RELIABILITY],
     [load |-> 50, latency |-> 30, reliability |-> PBFT_RELIABILITY],
     [load |-> 50, latency |-> 30, reliability |-> NaN]}

AdaptiveInit ==
    /\ \E registry \in AdaptiveRegistries : ai_new(registry)
    /\ adjustments = 0
    /\ mode_change_events = 0
    /\ aev = [op |-> "new"]

(* collect_metrics putting the new reliability in front of the earlier ones *)
collect_metrics_reliability_first(sample) ==
    /\ network_load' = Append(network_load, sample.load)
    /\ average_latency' = Append(average_latency, sample.latency)
    /\ reliability' = <<sample.reliability>> \o reliability

(* collect_metrics: one push on each of the three histories *)
collect_metrics(sample) ==
    /\ network_load' = Append(network_load, sample.load)
    /\ average_latency' = Append(average_latency, sample.latency)
    /\ reliability' = Append(reliability, sample.reliability)

Distance(x_data, i) ==
    IF x_data[i] >= x_data[Len(x_data)] THEN x_data[i] - x_data[Len(x_data)]
    ELSE x_data[Len(x_data)] - x_data[i]

RECURSIVE SumAt(_, _)
SumAt(y_data, idx) ==
    IF idx = {} THEN 0
    ELSE LET i == CHOOSE x \in idx : TRUE
         IN  y_data[i] + SumAt(y_data, idx \ {i})

(***************************************************************************)
(* NearestNeighbour::new(3).fit(x, y) and predict(latest_x): the mean      *)
(* reliability of the samples whose load is nearest to the latest load,    *)
(* three of them or all when there are fewer; samples at the same distance *)
(* are taken in any order.  The prediction is the pair of the sum and the  *)
(* count, so that the comparisons by the caller are exact; a mean over a   *)
(* NaN is NaN.                                                             *)
(***************************************************************************)
knn_predict(x_data, y_data) ==
    LET n == Len(x_data)
        k == IF n < KNN_NEIGHBOURS THEN n ELSE KNN_NEIGHBOURS
        neighbours == {N \in SUBSET (1..n) :
                          /\ Cardinality(N) = k
                          /\ \A i \in N, j \in (1..n) \ N :
                                Distance(x_data, i) <= Distance(x_data, j)}
    IN  {IF \E i \in N : y_data[i] = NaN
         THEN [sum |-> 0, count |-> k, nan |-> TRUE]
         ELSE [sum |-> SumAt(y_data, N), count |-> k, nan |-> FALSE] : N \in neighbours}

(* the switching rule with its comparisons made inclusive *)
mode_for_reliability_inclusive(predicted_reliability) ==
    IF predicted_reliability.nan THEN "PoS"
    ELSE IF predicted_reliability.sum <= POW_RELIABILITY * predicted_reliability.count
    THEN "PoW"
    ELSE IF predicted_reliability.sum <= PBFT_RELIABILITY * predicted_reliability.count
    THEN "PBFT"
    ELSE "PoS"

(* the match on predicted_reliability that ends predict_best_consensus;   *)
(* every comparison with a NaN is false, which leaves the last arm         *)
mode_for_reliability(predicted_reliability) ==
    IF predicted_reliability.nan THEN "PoS"
    ELSE IF predicted_reliability.sum < POW_RELIABILITY * predicted_reliability.count
    THEN "PoW"
    ELSE IF predicted_reliability.sum < PBFT_RELIABILITY * predicted_reliability.count
    THEN "PBFT"
    ELSE "PoS"

(* adjust_validators whose penalty branch still rewards the stake *)
adjust_validators_mixed(vals, k) ==
    [id \in DOMAIN vals |->
        LET validator == vals[id]
            penalized == 8 * validator.reputation
                         - 200 * validator.latency * Scale(k)
                         + 50 * validator.stake
                         < 500 * Scale(k)
        IN  IF penalized
            THEN [validator EXCEPT !.reputation = 17 * validator.reputation,
                                   !.stake = 21 * validator.stake]
            ELSE [validator EXCEPT !.reputation = 22 * validator.reputation,
                                   !.stake = 21 * validator.stake]]

(* adjust_validators: the score test and the penalty or reward of each     *)
(* validator, k being the number of adjustments made before                *)
adjust_validators(vals, k) ==
    [id \in DOMAIN vals |->
        LET validator == vals[id]
            penalized == 8 * validator.reputation
                         - 200 * validator.latency * Scale(k)
                         + 50 * validator.stake
                         < 500 * Scale(k)
        IN  IF penalized
            THEN [validator EXCEPT !.reputation = 17 * validator.reputation,
                                   !.stake = 19 * validator.stake]
            ELSE [validator EXCEPT !.reputation = 22 * validator.reputation,
                                   !.stake = 21 * validator.stake]]

(* collect_metrics called on its own *)
CollectMetrics(sample) ==
    /\ Len(network_load) < MaxSamples
    /\ collect_metrics(sample)
    /\ aev' = [op |-> "collect_metrics"]
    /\ UNCHANGED <<ai_consensus_mode, ai_validators, adjustments, mode_change_events,
                   shardVars, consVars, rb, pw, lk, coreVars>>

(* predict_best_consensus called on its own *)
PredictBestConsensus ==
    /\ IF network_load = <<>>
       THEN aev' = [op |-> "predict", trained |-> FALSE, recommended |-> "PoS"]
       ELSE \E predicted_reliability \in knn_predict(network_load, reliability) :
               aev' = [op |-> "predict", trained |-> TRUE,
                       predicted |-> predicted_reliability,
                       recommended |-> mode_for_reliability(predicted_reliability)]
    /\ UNCHANGED <<ai_consensus_mode, ai_validators, network_load, average_latency,
                   reliability, adjustments, mode_change_events, shardVars, consVars, rb, pw, lk, coreVars>>

(* adjust_validators called on its own *)
AdjustValidators ==
    /\ adjustments < MaxAdjustments
    /\ ai_validators' = adjust_validators(ai_validators, adjustments)
    /\ adjustments' = adjustments + 1
    /\ aev' = [op |-> "adjust_validators"]
    /\ UNCHANGED <<ai_consensus_mode, network_load, average_latency, reliability,
                   mode_change_events, shardVars, consVars, rb, pw, lk, coreVars>>

(* run_adaptive_logic announcing a change on every call *)
RunAdaptiveLogicAlwaysAnnounces(sample) ==
    /\ Len(network_load) < MaxSamples
    /\ adjustments < MaxAdjustments
    /\ collect_metrics(sample)
    /\ \E predicted_reliability \in
            knn_predict(Append(network_load, sample.load),
                        Append(reliability, sample.reliability)) :
          LET recommended_mode == mode_for_reliability(predicted_reliability)
          IN  /\ ai_consensus_mode' = recommended_mode
              /\ mode_change_events' = mode_change_events + 1
              /\ aev' = [op |-> "run_adaptive_logic", sample |-> sample,
                         predicted |-> predicted_reliability,
                         recommended |-> recommended_mode,
                         changed |-> TRUE]
    /\ ai_validators' = adjust_validators(ai_validators, adjustments)
    /\ adjustments' = adjustments + 1
    /\ UNCHANGED <<shardVars, consVars, rb, pw, lk, coreVars>>

(***************************************************************************)
(* run_adaptive_logic: collect_metrics, predict_best_consensus on the      *)
(* grown history, the write of the mode when the recommendation differs,   *)
(* adjust_validators.                                                      *)
(***************************************************************************)
RunAdaptiveLogic(sample) ==
    /\ Len(network_load) < MaxSamples
    /\ adjustments < MaxAdjustments
    /\ collect_metrics(sample)
    /\ \E predicted_reliability \in
            knn_predict(Append(network_load, sample.load),
                        Append(reliability, sample.reliability)) :
          LET recommended_mode == mode_for_reliability(predicted_reliability)
              changed == ai_consensus_mode # recommended_mode
          IN  /\ ai_consensus_mode' = IF changed THEN recommended_mode
                                      ELSE ai_consensus_mode
              /\ mode_change_events' = IF changed THEN mode_change_events + 1
                                       ELSE mode_change_events
              /\ aev' = [op |-> "run_adaptive_logic", sample |-> sample,
                         predicted |-> predicted_reliability,
                         recommended |-> recommended_mode,
                         changed |-> changed]
    /\ ai_validators' = adjust_validators(ai_validators, adjustments)
    /\ adjustments' = adjustments + 1
    /\ UNCHANGED <<shardVars, consVars, rb, pw, lk, coreVars>>

(***************************************************************************)
(* Blockchain of bleep-core/src/blockchain.rs: the chain, a VecDeque of    *)
(* blocks, and the account balances of its BlockchainState.  A block       *)
(* carries its transactions and their Merkle root; the timestamp and the   *)
(* signature bytes are not followed.  The checks of validate_full_block    *)
(* that consult the signature scheme, the anomaly detector and the peers   *)
(* are inputs.                                                             *)
(***************************************************************************)
Payment == [sender |-> "alice", receiver |-> "bob", amount |-> 1]

(* the transaction lists blocks are made of *)
TransactionLists == <<<< >>, <<Payment>>>>

(* Block::calculate_merkle_root: a digest of the list, the empty string    *)
(* (0 here) for the empty list                                             *)
calculate_merkle_root(transactions) ==
    (CHOOSE i \in DOMAIN TransactionLists : TransactionLists[i] = transactions) - 1

(* Block::new *)
BlockNew(index, transactions, previous_hash) ==
    [index |-> index, transactions |-> transactions, previous_hash |-> previous_hash,
     merkle_root |-> calculate_merkle_root(transactions)]

NoBalances == [account \in {} |-> 0]

InitialBalances ==
    {NoBalances, [account \in {"alice", "bob"} |-> 1], [account \in {"bob"} |-> 0]}

(* Blockchain::new(genesis_block, state, tx_pool) *)
BlockchainNew(genesis_block, state) ==
    /\ chain = <<genesis_block>>
    /\ balances = state

CoreTipHash == IF chain = <<>> THEN <<>> ELSE compute_hash(chain[Len(chain)])

(* the blocks handed to add_block: the successor of the tip or a block     *)
(* that skips an index, linked to the tip or not, with or without a        *)
(* payment                                                                 *)
CoreBlockInputs ==
    {BlockNew(index, TransactionLists[t], previous_hash) :
        index \in {Len(chain), Len(chain) + 1},
        t \in DOMAIN TransactionLists,
        previous_hash \in {CoreTipHash, BogusHash}}

(* BlockValidator::validate_block_link *)
validate_block_link(prev_block, current_block) ==
    current_block.previous_hash = compute_hash(prev_block)

(* BlockValidator::validate_full_block *)
validate_full_block(prev_block, block, valid_integrity, valid_ai, valid_network) ==
    LET valid_link == validate_block_link(prev_block, block)
    IN  valid_integrity /\ valid_ai /\ valid_link /\ valid_network

(* BlockchainState::revert_block: for each transaction in order, the       *)
(* amount goes back to the sender, whose entry is created when missing,    *)
(* and is taken from the receiver when the receiver has an entry, not      *)
(* below zero                                                              *)
RECURSIVE revert_block(_, _)
revert_block(state, transactions) ==
    IF transactions = << >> THEN state
    ELSE LET tx == Head(transactions)
             credited == IF tx.sender \in DOMAIN state
                         THEN [state EXCEPT ![tx.sender] = @ + tx.amount]
                         ELSE state @@ (tx.sender :> tx.amount)
             debited == IF tx.receiver \in DOMAIN credited
                        THEN [credited EXCEPT ![tx.receiver] =
                                 IF @ >= tx.amount THEN @ - tx.amount ELSE 0]
                        ELSE credited
         IN  revert_block(debited, Tail(transactions))

(* Blockchain::add_block; chain.back().unwrap() panics on an empty chain *)
BlockchainAddBlock(block, valid_integrity, valid_ai, valid_network) ==
    /\ Len(chain) < MaxCoreChain
    /\ IF chain = << >>
       THEN /\ bev' = [op |-> "add_block", result |-> "panicked",
                       before |-> [chain |-> chain, balances |-> balances]]
            /\ UNCHANGED chain
       ELSE LET last_block == chain[Len(chain)]
                is_valid == validate_full_block(last_block, block, valid_integrity,
                                                valid_ai, valid_network)
            IN  /\ chain' = IF is_valid THEN Append(chain, block) ELSE chain
                /\ bev' = [op |-> "add_block",
                           result |-> IF is_valid THEN "added" ELSE "rejected",
                           before |-> [chain |-> chain, balances |-> balances]]
    /\ UNCHANGED <<balances, pool, max_size, pev, shardVars, consVars, adaptVars, rb, pw, lk>>

(* the chains handed to handle_fork: of every length, each block linked to *)
(* its predecessor or none of them                                         *)
RECURSIVE ForkChain(_, _)
ForkChain(n, linked) ==
    IF n = 0 THEN << >>
    ELSE LET earlier == ForkChain(n - 1, linked)
             previous_hash == IF n = 1 THEN << >>
                              ELSE IF linked THEN compute_hash(earlier[n - 1])
                              ELSE BogusHash
         IN  Append(earlier, BlockNew(n - 1, <<Payment>>, previous_hash))

ForkChains == {ForkChain(n, linked) : n \in 0..MaxCoreChain, linked \in BOOLEAN}

(* Blockchain::handle_fork *)
BlockchainHandleFork(new_chain) ==
    /\ chain' = IF Len(new_chain) > Len(chain) THEN new_chain ELSE chain
    /\ bev' = [op |-> "handle_fork", switched |-> Len(new_chain) > Len(chain)]
    /\ UNCHANGED <<balances, pool, max_size, pev, shardVars, consVars, adaptVars, rb, pw, lk>>

(* Blockchain::rollback; balances are not followed beyond MaxBalance *)
BlockchainRollback ==
    /\ IF chain = << >>
       THEN /\ bev' = [op |-> "rollback", removed |-> FALSE]
            /\ UNCHANGED <<chain, balances>>
       ELSE LET removed_block == chain[Len(chain)]
            IN  /\ chain' = SubSeq(chain, 1, Len(chain) - 1)
                /\ balances' = revert_block(balances, removed_block.transactions)
                /\ bev' = [op |-> "rollback", removed |-> TRUE]
    /\ \A account \in DOMAIN balances' : balances'[account] <= MaxBalance
    /\ UNCHANGED <<pool, max_size, pev, shardVars, consVars, adaptVars, rb, pw, lk>>

(***************************************************************************)
(* TransactionPool of bleep-core/src/transaction_pool.rs.  A transaction   *)
(* is an identity and the answer of its signature check,                   *)
(* ZKTransaction::verify, whose scheme is outside the sources.  Every      *)
(* operation holds the pool's mutex from its first statement to its last.  *)
(***************************************************************************)
PoolTransactions == [id : TxIds, valid : BOOLEAN]

(* TransactionPool::new(max_size) *)
TransactionPoolNew(size) ==
    /\ pool = << >>
    /\ max_size = size

(* VecDeque::pop_front, which leaves an empty queue empty *)
pop_front(queue) == IF queue = << >> THEN queue ELSE Tail(queue)

(* TransactionPool::add_transaction *)
PoolAddTransaction(transaction) ==
    /\ IF transaction.valid
       THEN /\ pool' = Append(IF Len(pool) >= max_size THEN pop_front(pool) ELSE pool,
                              transaction)
            /\ pev' = [op |-> "add_transaction", result |-> TRUE,
                       transaction |-> transaction]
       ELSE /\ pev' = [op |-> "add_transaction", result |-> FALSE,
                       transaction |-> transaction]
            /\ UNCHANGED pool
    /\ UNCHANGED <<max_size, chain, balances, bev, shardVars, consVars, adaptVars,
                   rb, pw, lk>>

(* TransactionPool::clear_pool *)
PoolClear ==
    /\ pool' = << >>
    /\ pev' = [op |-> "clear_pool"]
    /\ UNCHANGED <<max_size, chain, balances, bev, shardVars, consVars, adaptVars,
                   rb, pw, lk>>

PoolUnused ==
    /\ pool = << >>
    /\ max_size = 0
    /\ pev = [op |-> "new"]

CoreUnused ==
    /\ chain = << >>
    /\ balances = NoBalances
    /\ bev = [op |-> "new"]
    /\ PoolUnused

(***************************************************************************)
(* Specifications                                                          *)
(***************************************************************************)
ConsensusUnused ==
    /\ consensus_new(<<>>)
    /\ blocks = <<>>
    /\ fin = FinIdle
    /\ cev = [op |-> "new"]

ShardsUnused ==
    /\ now = 0
    /\ new(0)
    /\ mon = MonIdle
    /\ panicked = FALSE
    /\ ev = [op |-> "new"]

AdaptiveUnused ==
    /\ ai_new(<<>>)
    /\ adjustments = 0
    /\ mode_change_events = 0
    /\ aev = [op |-> "new"]

Init == ShardInit /\ ConsensusUnused /\ AdaptiveUnused /\ MoveUnused /\ PowUnused /\ LocksUnused /\ CoreUnused

Next ==
    \/ \E transaction \in TxIds : AssignTransaction(transaction)
    \/ MonitorAndAutoRebalance
    \/ \E source_id \in ShardIds, target_id \in ShardIds \cup {0},
          gate \in BOOLEAN, decrypt_ok \in BOOLEAN :
            MonitorStep(source_id, target_id, gate, decrypt_ok)
    \/ LoadShardState
    \/ Tick

Spec == Init /\ [][Next]_vars

CInit == ShardsUnused /\ ConsensusInit /\ AdaptiveUnused /\ MoveUnused /\ PowUnused /\ LocksUnused /\ CoreUnused

CNext ==
    \/ \E predicted_mode \in ConsensusModes : SwitchConsensusMode(predicted_mode)
    \/ \E block \in BlockInputs : FinalizeBlock(block)
    \/ \E selected_validator \in ValidatorIds \cup {NoValidator},
          predicted_mode \in ConsensusModes :
            PosAttempt(selected_validator, predicted_mode)
    \/ \E found \in BOOLEAN, predicted_mode \in ConsensusModes :
            PowAttempt(found, predicted_mode)
    \/ \E leader \in ValidatorIds \cup {NoValidator}, predicted_mode \in ConsensusModes :
            PbftSelectLeader(leader, predicted_mode)
    \/ \E predicted_mode \in ConsensusModes : PbftBroadcast(predicted_mode)
    \/ \E predicted_mode \in ConsensusModes : PbftPrepare(predicted_mode)
    \/ \E predicted_mode \in ConsensusModes : PbftCommit(predicted_mode)

ConsensusSpec == CInit /\ [][CNext]_vars

AInit == ShardsUnused /\ ConsensusUnused /\ AdaptiveInit /\ MoveUnused /\ PowUnused /\ LocksUnused /\ CoreUnused

ANext ==
    \/ \E sample \in MetricsInputs : CollectMetrics(sample)
    \/ PredictBestConsensus
    \/ AdjustValidators
    \/ \E sample \in MetricsInputs : RunAdaptiveLogic(sample)

AdaptiveSpec == AInit /\ [][ANext]_vars

(***************************************************************************)
(* monitor_validators.  AIEngine::detect_anomalies is outside the crate    *)
(* sources: its answer is an input, given here by the set of ids whose     *)
(* score is above 0.8; an id may be one the registry does not hold.        *)
(***************************************************************************)
UnknownValidator == Len(validators) + 1

(* monitor_validators deleting the validators found anomalous *)
monitor_validators_deleting(registry, anomalous) ==
    [id \in DOMAIN registry \ anomalous |-> registry[id]]

monitor_validators(registry, anomalous) ==
    [id \in DOMAIN registry |->
        IF id \in anomalous
        THEN [registry[id] EXCEPT !.reputation = @ \div 2, !.active = FALSE]
        ELSE registry[id]]

(* monitor_validators takes &mut self: it does not run inside a            *)
(* finalize_block.  Reputations stay whole thousandths: a reputation that  *)
(* is odd is not halved further.                                           *)
MonitorValidators(anomalous) ==
    /\ fin.pc = "idle"
    /\ \A id \in anomalous \cap ValidatorIds : validators[id].reputation % 2 = 0
    /\ validators' = monitor_validators(validators, anomalous)
    /\ cev' = [op |-> "monitor_validators", anomalous |-> anomalous]
    /\ UNCHANGED <<consensus_mode, pow_difficulty, blocks, fin, shardVars, adaptVars, rb, pw, lk, coreVars>>

MInit ==
    /\ ShardsUnused /\ AdaptiveUnused /\ MoveUnused /\ PowUnused /\ LocksUnused /\ CoreUnused
    /\ \E registry \in {r \in Registries : Len(r) <= MaxValidators} :
          consensus_new(registry)
    /\ blocks = <<>>
    /\ fin = FinIdle
    /\ cev = [op |-> "new"]

MNext ==
    \/ \E predicted_mode \in ConsensusModes : SwitchConsensusMode(predicted_mode)
    \/ \E anomalous \in SUBSET (ValidatorIds \cup {UnknownValidator}) :
            MonitorValidators(anomalous)

MonitorSpec == MInit /\ [][MNext]_vars

(* the queues found by the calls: shards and their fields are public, the  *)
(* holder of the module may have filled them                               *)
RECURSIVE Queues(_)
Queues(n) ==
    IF n = 0 THEN {<<>>}
    ELSE Queues(n - 1) \cup {Append(q, t) : q \in Queues(n - 1), t \in TxIds}

LInit ==
    /\ now = 0
    /\ \E num_shards \in 0..MaxShards :
          \E queue \in [0..(num_shards - 1) -> Queues(MaxQueue)] :
             /\ shards = [s \in 0..(num_shards - 1) |->
                             [transactions |-> queue[s], load |-> Len(queue[s])]]
             /\ db = [s \in 0..(num_shards - 1) |-> [present |-> FALSE, data |-> <<>>]]
    /\ load_threshold = INITIAL_LOAD_THRESHOLD
    /\ last_rebalance_timestamp = now
    /\ mon = MonIdle
    /\ panicked = FALSE
    /\ ev = [op |-> "new"]
    /\ ConsensusUnused /\ AdaptiveUnused /\ MoveUnused /\ PowUnused /\ LocksUnused /\ CoreUnused

LNext ==
    \/ \E transaction \in TxIds : LockAssign(transaction)
    \/ \E outcome \in RelockOutcomes : LockAssignPersist(outcome)
    \/ LockMonitorEnter
    \/ \E source_id \in ShardIds : LockMonitorSource(source_id)
    \/ \E outcome \in RelockOutcomes : LockSelectTarget(outcome)
    \/ LockMonitorFinish
    \/ Tick

LockSpec == LInit /\ [][LNext]_vars

BInit ==
    /\ ShardsUnused /\ ConsensusUnused /\ AdaptiveUnused /\ MoveUnused /\ PowUnused
    /\ LocksUnused /\ PoolUnused
    /\ \E state \in InitialBalances : BlockchainNew(BlockNew(0, << >>, << >>), state)
    /\ bev = [op |-> "new"]

BNext ==
    \/ \E block \in CoreBlockInputs, valid_integrity \in BOOLEAN, valid_ai \in BOOLEAN,
          valid_network \in BOOLEAN :
            BlockchainAddBlock(block, valid_integrity, valid_ai, valid_network)
    \/ \E new_chain \in ForkChains : BlockchainHandleFork(new_chain)
    \/ BlockchainRollback

BlockchainSpec == BInit /\ [][BNext]_vars

TInit ==
    /\ ShardsUnused /\ ConsensusUnused /\ AdaptiveUnused /\ MoveUnused /\ PowUnused
    /\ LocksUnused
    /\ chain = << >>
    /\ balances = NoBalances
    /\ bev = [op |-> "new"]
    /\ \E size \in 0..MaxPoolSize : TransactionPoolNew(size)
    /\ pev = [op |-> "new"]

TNext ==
    \/ \E transaction \in PoolTransactions : PoolAddTransaction(transaction)
    \/ PoolClear

PoolSpec == TInit /\ [][TNext]_vars

RInit == ShardInit /\ ConsensusUnused /\ AdaptiveUnused /\ MoveUnused /\ PowUnused /\ LocksUnused /\ CoreUnused

RNext ==
    \/ \E transaction \in TxIds : rb.pc = "idle" /\ AssignTransaction(transaction)
    \/ \E source_id \in ShardIds, target_id \in ShardIds :
            RebalanceLock(source_id, target_id)
    \/ \E decrypt_ok \in BOOLEAN : RebalanceFront(decrypt_ok)
    \/ RebalancePushBack
    \/ RebalancePopFront
    \/ RebalancePersistSource
    \/ RebalancePersistTarget

RebalanceSpec == RInit /\ [][RNext]_vars

PInit == ShardsUnused /\ ConsensusUnused /\ AdaptiveUnused /\ MoveUnused /\ PowUnused /\ LocksUnused /\ CoreUnused

PNext ==
    \/ \E predicted_mode \in ConsensusModes :
            pw.pc # "loop" /\ SwitchConsensusMode(predicted_mode)
    \/ \E first_hit \in 0..(MaxNonce + 1) : PowEnter(first_hit)
    \/ PowIterate

PowSpec == PInit /\ [][PNext]_vars

(* a thread inside the loop keeps executing it *)
PowLiveSpec == PowSpec /\ WF_vars(PowIterate)

(***************************************************************************)
(* Properties of the shard manager                                         *)
(***************************************************************************)
RECURSIVE BagOfSeq(_)
BagOfSeq(q) == IF q = <<>> THEN EmptyBag ELSE SetToBag({Head(q)}) (+) BagOfSeq(Tail(q))

RECURSIVE BagOfShards(_, _)
BagOfShards(sh, ids) ==
    IF ids = {} THEN EmptyBag
    ELSE LET s == CHOOSE x \in ids : TRUE
         IN  BagOfSeq(sh[s].transactions) (+) BagOfShards(sh, ids \ {s})

(* the multiset union of all shards' pending transactions *)
PendingBag == BagOfShards(shards, ShardIds)

C2_MovePreservesPendingMultiset ==
    [][ev'.op = "monitor_step" => PendingBag' = PendingBag]_vars

C2_Witness_TransactionMoved ==
    /\ ev.op = "monitor_step"
    /\ ev.outcome = "moved"
    /\ shards[ev.target].transactions # <<>>

(* C5: a rebalance move whose decryption under the target shard fails      *)
(* leaves the source queue (the transaction still at its front), the       *)
(* source load, the target queue and the store unchanged, and the          *)
(* operation returns normally.                                             *)
C5_FailedDecryptLeavesShardsUnchanged ==
    [][(ev'.op = "monitor_step" /\ ev'.outcome = "decrypt_failed")
          => (shards' = shards /\ db' = db /\ ~panicked')]_vars

C5_Witness_DecryptFailed ==
    /\ ev.op = "monitor_step"
    /\ ev.outcome = "decrypt_failed"
    /\ ev.source # ev.target
    /\ shards[ev.source].transactions # <<>>


(* C15: assign_transaction appends the transaction at the tail of a shard  *)
(* whose load was minimal, adds one to that shard's load and leaves every  *)
(* other shard as it was.                                                  *)
C15_AssignAppendsToLeastLoaded ==
    [][(ev'.op = "assign" /\ ev'.result = "Ok") =>
          LET s == ev'.shard
          IN  /\ \A o \in ShardIds : shards[s].load <= shards[o].load
              /\ \E tx \in TxIds :
                    shards'[s].transactions = Append(shards[s].transactions, tx)
              /\ shards'[s].load = shards[s].load + 1
              /\ \A o \in ShardIds \ {s} : shards'[o] = shards[o]]_vars

C15_Witness_AssignedBehindOthers ==
    /\ ev.op = "assign"
    /\ ev.result = "Ok"
    /\ Len(shards[ev.shard].transactions) >= 2
    /\ \E o \in ShardIds \ {ev.shard} : shards[o].load >= shards[ev.shard].load

(* C16: among the shards of minimal load assign_transaction takes the one  *)
(* of lowest shard_id.  The source takes the first one in the iteration    *)
(* order of the HashMap, which is any of them.                             *)
C16_TiesGoToLowestShardId ==
    [][(ev'.op = "assign" /\ ev'.result = "Ok") =>
          \A o \in ShardIds :
              shards[o].load = shards[ev'.shard].load => ev'.shard <= o]_vars

C18_MoveOnlyAfterGateApproval ==
    [][ev'.op = "monitor_step" =>
          /\ shards' # shards => ev'.gate
          /\ ev'.outcome = "moved" => ev'.gate
          /\ ev'.outcome = "gate_rejected" => (~ev'.gate /\ shards' = shards /\ db' = db)
          /\ ev'.source \in mon.todo
          /\ ev'.source \notin mon'.todo
          /\ mon'.todo \subseteq mon.todo]_vars

C18_Witness_GateRejected ==
    /\ ev.op = "monitor_step"
    /\ ev.outcome = "gate_rejected"
    /\ shards[ev.source].transactions # <<>>
    /\ mon.pc = "loop"

(* C19: an evaluation examines shards only when at least REBALANCE_PERIOD  *)
(* has passed since the previous one (or since construction); a call made  *)
(* earlier changes no queue, nor load_threshold, nor                       *)
(* last_rebalance_timestamp.                                               *)
C19_CooldownBetweenEvaluations ==
    [][/\ (ev'.op = "monitor" /\ now - last_rebalance_timestamp < REBALANCE_PERIOD) =>
              /\ shards' = shards
              /\ load_threshold' = load_threshold
              /\ last_rebalance_timestamp' = last_rebalance_timestamp
              /\ mon'.pc = "idle"
       /\ (ev'.op = "assign" /\ now - last_rebalance_timestamp < REBALANCE_PERIOD) =>
              /\ load_threshold' = load_threshold
              /\ last_rebalance_timestamp' = last_rebalance_timestamp
              /\ mon'.pc = "idle"
       /\ (mon.pc = "idle" /\ mon'.pc = "loop") =>
              now - last_rebalance_timestamp >= REBALANCE_PERIOD
       /\ last_rebalance_timestamp' # last_rebalance_timestamp =>
              last_rebalance_timestamp' - last_rebalance_timestamp >= REBALANCE_PERIOD]_vars

C19_Witness_CallInsideCooldown ==
    /\ ev.op = "monitor"
    /\ last_rebalance_timestamp > 0
    /\ now > last_rebalance_timestamp
    /\ now - last_rebalance_timestamp < REBALANCE_PERIOD
    /\ \E s \in ShardIds : shards[s].load > 0 /\ shards[s].transactions # <<>>

RECURSIVE TotalLoad(_)
TotalLoad(ids) ==
    IF ids = {} THEN 0
    ELSE LET s == CHOOSE x \in ids : TRUE
         IN  shards[s].load + TotalLoad(ids \ {s})

AverageLoad == IF ShardIds = {} THEN 0 ELSE TotalLoad(ShardIds) \div Cardinality(ShardIds)

(* C20: load_threshold is 10 until the first rebalance evaluation          *)
(* completes; it changes only when an evaluation completes, and is then    *)
(* the average shard load plus 2.                                          *)
C20_ThresholdIsAveragePlusTwo ==
    [][/\ last_rebalance_timestamp' = 0 => load_threshold' = INITIAL_LOAD_THRESHOLD
       /\ load_threshold' # load_threshold =>
              last_rebalance_timestamp' # last_rebalance_timestamp
       /\ last_rebalance_timestamp' # last_rebalance_timestamp =>
              load_threshold' = AverageLoad' + 2]_vars

C20_Witness_ThresholdRecomputed ==
    /\ last_rebalance_timestamp > 0
    /\ load_threshold = 3
    /\ mon.pc = "idle"

(***************************************************************************)
(* Properties of the block finalization engine                             *)
(***************************************************************************)
RegistrySize == Cardinality(ValidatorIds)

(* C3: a finalize_block call makes at most two attempts: one retry after   *)
(* an abort, then a failure is returned.  The source recurses after every  *)
(* abort and has no failing return.                                        *)
C3_AtMostTwoAttempts == fin.attempts <= 2

(* C4: no validator with active = false is selected as producer or leader  *)
(* or counted among the prepare or commit votes.  pos_algorithm and        *)
(* collect_votes do not read the active flag.                              *)
C4_InactiveNeverSelectedNorCounted ==
    /\ (cev.op = "pos" /\ cev.producer # NoValidator) => validators[cev.producer].active
    /\ (cev.op = "pbft" /\ cev.leader # NoValidator) => validators[cev.leader].active
    /\ (cev.op = "pbft" /\ cev.phase \in {"prepare", "commit"})
          => \A v \in cev.votes : validators[v].active

(* C6: every finalized block after the first carries the hash of the       *)
(* block before it.  Neither finalize_block nor add_block compares         *)
(* previous_hash with the tip.                                             *)
C6_ChainLinkedByPreviousHash ==
    \A i \in 2..Len(blocks) : blocks[i].previous_hash = compute_hash(blocks[i - 1])

(* C7: under PBFT the block is applied only by the commit step of an       *)
(* attempt that selected an eligible leader, then broadcast the proposal,  *)
(* then had a prepare quorum, then a commit quorum; a PBFT step that       *)
(* aborts the attempt leaves the chain unchanged.                          *)
C7_PbftAppliesAfterAllPhases ==
    [][cev'.op = "pbft" =>
          /\ blocks' # blocks =>
                /\ cev'.phase = "commit"
                /\ cev'.ok
                /\ cev'.log = <<"leader", "broadcast", "prepare", "commit">>
                /\ blocks' = Append(blocks, fin.block)
                /\ validators[cev'.leader].active
                /\ validators[cev'.leader].reputation > 700
                /\ 100 * Cardinality(cev'.prepare_votes) >= 66 * RegistrySize
                /\ 100 * Cardinality(cev'.votes) >= 66 * RegistrySize
          /\ ~cev'.ok => blocks' = blocks]_vars

C7_Witness_PbftFinalized ==
    /\ cev.op = "pbft"
    /\ cev.phase = "commit"
    /\ cev.ok
    /\ blocks # <<>>
    /\ fin.pc = "idle"

(* C8: a PoS attempt succeeds exactly when some active validator has a     *)
(* reputation above 0.8, the producer being the highest-stake one of       *)
(* them.  The source tests the reputation of the highest-stake validator   *)
(* of the whole registry.                                                  *)
C8_PosSucceedsIffReputableActiveValidator ==
    cev.op = "pos" =>
        LET eligible == {v \in ValidatorIds :
                            validators[v].active /\ validators[v].reputation > 800}
        IN  /\ cev.ok <=> eligible # {}
            /\ cev.ok => /\ cev.producer \in eligible
                         /\ \A e \in eligible :
                               validators[cev.producer].stake >= validators[e].stake

(* C9: select_pbft_leader returns an active validator of reputation above  *)
(* 0.7 whose stake is the highest among those; it returns none, and the    *)
(* attempt aborts with nothing broadcast, exactly when there is no such    *)
(* validator.                                                              *)
C9_LeaderIsHighestStakeEligible ==
    (cev.op = "pbft" /\ cev.phase = "leader") =>
        LET eligible == {v \in ValidatorIds :
                            validators[v].active /\ validators[v].reputation > 700}
        IN  /\ cev.ok <=> eligible # {}
            /\ cev.ok => /\ cev.leader \in eligible
                         /\ \A e \in eligible :
                               validators[cev.leader].stake >= validators[e].stake
                         /\ fin.pc = "broadcast"
                         /\ fin.leader = cev.leader
            /\ ~cev.ok => /\ cev.leader = NoValidator
                          /\ cev.log = <<>>
                          /\ fin.pc = "match"
                          /\ fin.attempts > 1

C9_Witness_LeaderChosenOverInactive ==
    /\ cev.op = "pbft"
    /\ cev.phase = "leader"
    /\ cev.ok
    /\ \E v \in ValidatorIds :
          /\ ~validators[v].active
          /\ validators[v].reputation > 700
          /\ validators[v].stake > validators[cev.leader].stake

(* C10: a PBFT phase, prepare or commit, has quorum exactly when the       *)
(* number of votes is at least ceil(0.66 * N) for a registry of N          *)
(* validators: 2 votes for N = 3, 7 votes for N = 10.                      *)
C10_QuorumIsCeilOfTwoThirds ==
    (cev.op = "pbft" /\ cev.phase \in {"prepare", "commit"}) =>
        LET k == Cardinality(cev.votes)
        IN  /\ cev.ok <=> 100 * k >= 66 * RegistrySize
            /\ RegistrySize = 3 => (cev.ok <=> k >= 2)
            /\ RegistrySize = 10 => (cev.ok <=> k >= 7)

C10_Witness_SevenOfTen ==
    /\ cev.op = "pbft"
    /\ cev.phase = "commit"
    /\ cev.ok
    /\ RegistrySize = 10
    /\ Cardinality(cev.votes) = 7

(* C14: a finalization attempt runs from its first to its last step under  *)
(* the mode it read when it started: the mode is written only between      *)
(* finalizations or at the end of a failed attempt, where it is the mode   *)
(* of the next attempt on the same block.                                  *)
C14_AttemptRunsUnderModeReadAtStart ==
    [][/\ fin.pc \in {"broadcast", "prepare", "commit"} => consensus_mode = "PBFT"
       /\ cev'.op = "pbft" => consensus_mode = "PBFT"
       /\ cev'.op = "pos" => consensus_mode = "PoS"
       /\ cev'.op = "pow" => consensus_mode = "PoW"
       /\ consensus_mode' # consensus_mode =>
              \/ fin.pc = "idle" /\ fin'.pc = "idle"
              \/ /\ fin.pc # "idle"
                 /\ cev'.op \in {"pos", "pow", "pbft"}
                 /\ ~cev'.ok
                 /\ fin'.pc = "match"
                 /\ fin'.block = fin.block
                 /\ fin'.attempts = fin.attempts + 1]_vars

C14_Witness_SwitchAfterPbftAbort ==
    /\ cev.op = "pbft"
    /\ cev.phase = "prepare"
    /\ ~cev.ok
    /\ fin.pc = "match"
    /\ fin.attempts = 2
    /\ consensus_mode # "PBFT"

(***************************************************************************)
(* Properties of the mode selector                                         *)
(***************************************************************************)
(* C11: the selector recommends PoW for a predicted reliability below 0.6, *)
(* PBFT from 0.6 up to but not including 0.8, and PoS from 0.8 on.         *)
C11_SwitchingRuleBoundaries ==
    ((aev.op = "run_adaptive_logic" \/ (aev.op = "predict" /\ aev.trained))
     /\ ~aev.predicted.nan) =>
        LET sum == aev.predicted.sum
            count == aev.predicted.count
        IN  /\ sum < POW_RELIABILITY * count => aev.recommended = "PoW"
            /\ (POW_RELIABILITY * count <= sum /\ sum < PBFT_RELIABILITY * count) =>
                   aev.recommended = "PBFT"
            /\ sum >= PBFT_RELIABILITY * count => aev.recommended = "PoS"

C11_Witness_BoundaryGivesPbft ==
    /\ aev.op = "run_adaptive_logic"
    /\ aev.predicted.sum = POW_RELIABILITY * aev.predicted.count
    /\ aev.recommended = "PBFT"
    /\ ai_consensus_mode = "PBFT"

ConstantStream ==
    \A i \in 1..Len(network_load) :
        /\ network_load[i] = network_load[1]
        /\ average_latency[i] = average_latency[1]
        /\ reliability[i] = reliability[1]

(* C12: run_adaptive_logic announces and writes a mode change exactly when *)
(* the recommended mode differs from the current one, and while every      *)
(* sample of the history is the same at most one change has been announced.*)
C12_ConstantStreamChangesAtMostOnce ==
    [][aev'.op = "run_adaptive_logic" =>
          /\ aev'.changed <=> (ai_consensus_mode # aev'.recommended)
          /\ ai_consensus_mode' = aev'.recommended
          /\ mode_change_events' =
                IF ai_consensus_mode # aev'.recommended THEN mode_change_events + 1
                ELSE mode_change_events
          /\ ConstantStream' => mode_change_events' <= 1]_vars

C12_Witness_SecondCallKeepsMode ==
    /\ aev.op = "run_adaptive_logic"
    /\ ~aev.changed
    /\ ConstantStream
    /\ Len(network_load) >= 3
    /\ mode_change_events = 1
    /\ ai_consensus_mode # "PoS"

(* C13: after run_adaptive_logic the mode is the one the switching rule    *)
(* gives for the reliability of the sample just recorded, whatever the     *)
(* history holds.  The prediction averages the nearest samples of the      *)
(* history, so earlier samples decide with it.                             *)
C13_ModeFollowsLatestSample ==
    [][(aev'.op = "run_adaptive_logic"
        /\ \A i \in 1..Len(reliability') : reliability'[i] # NaN) =>
          ai_consensus_mode' =
              IF aev'.sample.reliability < POW_RELIABILITY THEN "PoW"
              ELSE IF aev'.sample.reliability < PBFT_RELIABILITY THEN "PBFT"
              ELSE "PoS"]_vars

RECURSIVE BagOfRecords(_, _)
BagOfRecords(d, ids) ==
    IF ids = {} THEN EmptyBag
    ELSE LET s == CHOOSE x \in ids : TRUE
         IN  BagOfSeq([i \in DOMAIN d[s].data |-> d[s].data[i].tx])
             (+) BagOfRecords(d, ids \ {s})

(* the multiset union of the transactions of all persisted shard records *)
CheckpointBag == BagOfRecords(db, ShardIds)

C23_PowSearchTerminates ==
    /\ (pw.pc = "loop") ~> (pw.pc = "returned")
    /\ [](pw.pc = "returned" =>
             IF pw.result
             THEN pw.nonce = pw.first_hit /\ pw.nonce <= MaxNonce
             ELSE pw.nonce = MaxNonce + 1 /\ pw.first_hit > MaxNonce)

C23_Witness_AbortedAtBound ==
    /\ pw.pc = "returned"
    /\ ~pw.result
    /\ pw.nonce > MaxNonce

(* C24: pow_difficulty never falls below 2; a successful PoW search raises *)
(* it by one when the network hashrate is above the threshold and lowers   *)
(* it by one, but not below 2, otherwise; a failed search and every other  *)
(* step leave it as it was.                                                *)
C24_PowDifficultyAdjustment ==
    [][/\ pow_difficulty' >= 2
       /\ (cev'.op = "pow" /\ cev'.ok) =>
              pow_difficulty' =
                  IF get_network_hashrate > HASHRATE_THRESHOLD THEN pow_difficulty + 1
                  ELSE IF pow_difficulty > 2 THEN pow_difficulty - 1
                  ELSE pow_difficulty
       /\ ~(cev'.op = "pow" /\ cev'.ok) => pow_difficulty' = pow_difficulty]_vars

C24_Witness_DifficultyRaised ==
    /\ cev.op = "pow"
    /\ cev.ok
    /\ pow_difficulty = INITIAL_POW_DIFFICULTY + 1
    /\ fin.pc = "idle"

(***************************************************************************)
(* Further properties of the mode selector                                 *)
(***************************************************************************)
(* C25: a round of adjust_validators gives every validator either the      *)
(* penalty on both fields (reputation * 0.85 and stake * 0.95, when        *)
(* reputation * 0.8 - latency * 0.2 + stake * 0.05 < 0.5) or the reward on *)
(* both (reputation * 1.1 and stake * 1.05), and leaves its latency.       *)
(* Reputation and stake carry the scale 20^adjustments, so a factor f      *)
(* shows as 20 * f.                                                        *)
C25_JointRewardOrPenalty ==
    [][adjustments' # adjustments =>
          /\ adjustments' = adjustments + 1
          /\ DOMAIN ai_validators' = DOMAIN ai_validators
          /\ \A id \in DOMAIN ai_validators :
                LET before == ai_validators[id]
                    after == ai_validators'[id]
                    below == 8 * before.reputation + 50 * before.stake
                             < (500 + 200 * before.latency) * (20 ^ adjustments)
                IN  /\ after.latency = before.latency
                    /\ below => (after.reputation = 17 * before.reputation
                                 /\ after.stake = 19 * before.stake)
                    /\ ~below => (after.reputation = 22 * before.reputation
                                  /\ after.stake = 21 * before.stake)]_vars

C25_Witness_RewardOfTheTest ==
    /\ adjustments = 1
    /\ aev.op = "adjust_validators"
    /\ ai_validators = <<[reputation |-> 88 * 20, latency |-> 30, stake |-> 1050 * 20],
                         [reputation |-> 66 * 20, latency |-> 50, stake |-> 15750],
                         [reputation |-> 99 * 20, latency |-> 20, stake |-> 1575 * 20]>>

(* C26: when the prediction is not a valid reliability the mode stays what *)
(* it was, and the mode is always one of PoS, PBFT, PoW.  In the source a  *)
(* NaN prediction fails both comparisons of the match and selects PoS.     *)
C26_InvalidPredictionRetainsMode ==
    [][/\ ai_consensus_mode' \in ConsensusModes
       /\ (aev'.op = "run_adaptive_logic" /\ aev'.predicted.nan) =>
              ai_consensus_mode' = ai_consensus_mode]_vars

(***************************************************************************)
(* Further properties of assignment                                        *)
(***************************************************************************)
(* C27: assign_transaction on a manager without any shard answers with an  *)
(* error, and a call that answers with an error has changed no queue, no   *)
(* load, no persisted record and no threshold.                             *)
C27_NoShardRejectsSynchronously ==
    [][ev'.op = "assign" =>
          /\ ShardIds = {} => ev'.result # "Ok"
          /\ ev'.result # "Ok" =>
                /\ shards' = shards
                /\ db' = db
                /\ load_threshold' = load_threshold
                /\ last_rebalance_timestamp' = last_rebalance_timestamp
                /\ mon' = mon]_vars

C27_Witness_RejectedWithoutShards ==
    /\ ev.op = "assign"
    /\ ev.result = "PredictionError"
    /\ ShardIds = {}
    /\ load_threshold = INITIAL_LOAD_THRESHOLD

(***************************************************************************)
(* Block indices                                                           *)
(***************************************************************************)
(* C28: the indices of the chain increase by exactly one from each block   *)
(* to the next: a block is appended only when its index is the index of    *)
(* the tip plus one.  Neither finalize_block nor add_block reads           *)
(* block.index.                                                            *)
C28_IndicesIncreaseByOne ==
    \A i \in 2..Len(blocks) : blocks[i].index = blocks[i - 1].index + 1

(***************************************************************************)
(* Metrics histories                                                       *)
(***************************************************************************)
IsPrefix(earlier, later) ==
    /\ Len(earlier) <= Len(later)
    /\ \A i \in 1..Len(earlier) : later[i] = earlier[i]

(* C29: a call of collect_metrics, on its own or from run_adaptive_logic,  *)
(* adds exactly one value at the end of each of the load, latency and      *)
(* reliability histories, the three values of its sample, and leaves the   *)
(* earlier samples where they were; no other call touches the histories;   *)
(* the three histories have the same length after every call.              *)
C29_CollectAppendsOneSampleToEachHistory ==
    [][/\ aev'.op \in {"collect_metrics", "run_adaptive_logic"} =>
            /\ Len(network_load') = Len(network_load) + 1
            /\ Len(average_latency') = Len(average_latency) + 1
            /\ Len(reliability') = Len(reliability) + 1
            /\ IsPrefix(network_load, network_load')
            /\ IsPrefix(average_latency, average_latency')
            /\ IsPrefix(reliability, reliability')
            /\ \E sample \in MetricsInputs :
                  /\ network_load'[Len(network_load')] = sample.load
                  /\ average_latency'[Len(average_latency')] = sample.latency
                  /\ reliability'[Len(reliability')] = sample.reliability
       /\ aev'.op \in {"predict", "adjust_validators"} =>
            /\ network_load' = network_load
            /\ average_latency' = average_latency
            /\ reliability' = reliability
       /\ Len(network_load') = Len(average_latency')
       /\ Len(average_latency') = Len(reliability')]_vars

C29_Witness_SecondSampleCollected ==
    /\ aev.op = "collect_metrics"
    /\ Len(network_load) = 2
    /\ Len(average_latency) = 2
    /\ Len(reliability) = 2
    /\ reliability[1] = 40
    /\ reliability[2] = 95

(* a retention bound smaller than the number of samples that get recorded  *)
RetentionBound == MaxSamples - 1

(* C30: however many samples are recorded, each history holds at most      *)
(* RetentionBound of them.  collect_metrics only pushes and nothing        *)
(* removes a sample, so the histories hold every sample ever recorded.     *)
C30_HistoryWithinRetentionBound ==
    /\ Len(network_load) <= RetentionBound
    /\ Len(average_latency) <= RetentionBound
    /\ Len(reliability) <= RetentionBound

(***************************************************************************)
(* Validator registry                                                      *)
(***************************************************************************)
(* C31: no step changes the set of registered validators; a call of        *)
(* monitor_validators halves the reputation of each validator reported     *)
(* with a score above 0.8, deactivates it and keeps its stake, and leaves  *)
(* every other validator's record as it was.                               *)
C31_AnomalyDeactivatesAndKeepsRecord ==
    [][/\ DOMAIN validators' = DOMAIN validators
       /\ cev'.op = "monitor_validators" =>
             \A id \in DOMAIN validators :
                IF id \in cev'.anomalous
                THEN /\ 2 * validators'[id].reputation = validators[id].reputation
                     /\ validators'[id].active = FALSE
                     /\ validators'[id].stake = validators[id].stake
                ELSE validators'[id] = validators[id]]_vars

C31_Witness_OneOfTwoDeactivated ==
    /\ cev.op = "monitor_validators"
    /\ cev.anomalous = {1}
    /\ Len(validators) = 2
    /\ validators[1] = [reputation |-> 375, stake |-> 1, active |-> FALSE]
    /\ validators[2].active

(***************************************************************************)
(* Outcome of finalize_block                                               *)
(***************************************************************************)
(* C32: the step on which finalize_block returns Ok(()) appends the block  *)
(* of the call to the chain, and every other step of the call leaves the   *)
(* chain as it was, so that a call answering Ok has appended its block     *)
(* exactly once.  pow_algorithm answers true without calling add_block.    *)
C32_OkOnlyAfterAppendingOnce ==
    [][fin.pc # "idle" =>
          IF fin'.pc = "idle"
          THEN blocks' = Append(blocks, fin.block)
          ELSE blocks' = blocks]_vars

(***************************************************************************)
(* Shard mutexes                                                           *)
(***************************************************************************)
(* C33: assign_transaction on a manager with a shard never stops at a      *)
(* shard mutex: it is never parked on, nor unwound by, a lock() of a mutex *)
(* it holds.  persist_shard_state locks the shard whose guard              *)
(* assign_transaction still owns.                                          *)
C33_AssignNeverStopsAtShardMutex ==
    lk.op = "assign_transaction" => lk.pc \notin RelockOutcomes

(* C34: a rebalance evaluation past its cooldown never waits on a shard    *)
(* mutex that it holds itself.  select_target_shard locks every shard      *)
(* while the evaluation owns the guard of the source.                      *)
C34_EvaluationNeverWaitsOnItsOwnLock ==
    lk.op = "monitor_and_auto_rebalance" => lk.pc \notin RelockOutcomes

(***************************************************************************)
(* Determinism of leader selection                                         *)
(***************************************************************************)
HighestStake(candidates) ==
    {v \in candidates : \A o \in candidates : validators[v].stake >= validators[o].stake}

(* C35: the outcome of a PoS or PBFT attempt is determined by the registry *)
(* and the block: whichever validator of the highest stake the iteration   *)
(* of the registry puts forward, the PoS attempt succeeds or aborts alike, *)
(* and the PBFT leader is the same validator.  The registry is a HashMap   *)
(* and both selections take the first or last of equal stakes in its       *)
(* iteration order.                                                        *)
C35_AttemptOutcomeIsDetermined ==
    [][/\ cev'.op = "pos" =>
             \A v \in HighestStake(ValidatorIds) :
                (validators[v].reputation > POS_REPUTATION) = cev'.ok
       /\ (cev'.op = "pbft" /\ cev'.phase = "leader") =>
             \A v \in HighestStake({e \in ValidatorIds :
                                      /\ validators[e].active
                                      /\ validators[e].reputation > LEADER_REPUTATION}) :
                v = cev'.leader]_vars

C37_ChainNeverEmpty ==
    /\ Len(chain) >= 1
    /\ bev.op = "add_block" => bev.result # "panicked"

(* C38: a rollback that follows a successful add_block at once gives back  *)
(* the chain and the balances of before the add_block; a rejected          *)
(* add_block changes neither.  add_block does not apply the block's        *)
(* transactions to the balances, rollback reverts them.                    *)
C38_RollbackUndoesAddBlock ==
    [][/\ (bev.op = "add_block" /\ bev.result = "added" /\ bev'.op = "rollback") =>
             /\ chain' = bev.before.chain
             /\ balances' = bev.before.balances
       /\ (bev'.op = "add_block" /\ bev'.result = "rejected") =>
             /\ chain' = chain
             /\ balances' = balances]_vars

LinksHold(blocks_of_chain) ==
    \A i \in 2..Len(blocks_of_chain) :
        blocks_of_chain[i].previous_hash = compute_hash(blocks_of_chain[i - 1])

(* C39: handle_fork changes the chain only to a strictly longer one whose  *)
(* blocks are each linked to their predecessor, and after every add_block  *)
(* and handle_fork the chain is linked throughout and no shorter than      *)
(* before.  handle_fork compares lengths only.                             *)
C39_ForkSwitchesToLongerLinkedChain ==
    [][/\ (bev'.op = "handle_fork" /\ chain' # chain) =>
             /\ Len(chain') > Len(chain)
             /\ LinksHold(chain')
       /\ bev'.op \in {"add_block", "handle_fork"} =>
             /\ LinksHold(chain) => LinksHold(chain')
             /\ Len(chain') >= Len(chain)]_vars

(***************************************************************************)
(* TransactionPool                                                         *)
(***************************************************************************)
(* C40: the pool never holds more than max_size transactions; a valid      *)
(* transaction added to a full pool takes the place of the oldest one, the *)
(* others keeping their order, and ends the queue; an invalid transaction  *)
(* is refused and the pool stays as it was.  With max_size = 0 the pool    *)
(* takes one transaction.                                                  *)
C40_PoolWithinMaxSize ==
    [][/\ Len(pool') <= max_size
       /\ (pev'.op = "add_transaction" /\ pev'.result /\ Len(pool) = max_size) =>
             /\ Len(pool') = Len(pool)
             /\ \A i \in 1..(Len(pool) - 1) : pool'[i] = pool[i + 1]
             /\ pool'[Len(pool')] = pev'.transaction
       /\ (pev'.op = "add_transaction" /\ ~pev'.transaction.valid) =>
             /\ ~pev'.result
             /\ pool' = pool]_vars

=============================================================================
